---- MODULE Spec2Model ----
(***************************************************************************)
(* Execution layer of the ICT price-action bot: RiskManager, PaperTrader,  *)
(* ExitStrategy, PositionManager and the 5-minute cycle of the entry point *)
(* that drives them.                                                       *)
(*                                                                         *)
(* Numbers.  Prices are integers in units of 1/100 USDT-cent chosen so     *)
(* that the 0.05% slippage and the 0.05% breakeven buffer are exact.       *)
(* Money is whole USDT; a product with a price ratio is computed on the    *)
(* reduced fraction and truncated toward zero.  Percent thresholds are     *)
(* compared by cross-multiplication, so they are exact.                    *)
(***************************************************************************)
EXTENDS Integers, Sequences, FiniteSets, TLC

VARIABLES
  openPositions,    \* paperTrader: PaperPosition[] (module-level)
  tradeHistory,     \* paperTrader: Trade[] of closed trades
  riskState,        \* riskManager: RiskState (module-level)
  accountBalance,   \* index: paper balance handed to executeSignal
  manualKillSwitch, \* telegramBot: /kill toggle
  lastPrice,        \* index: close of the newest 5m candle in candleCache
  nextId,           \* number of trades opened so far (stands for uuidv4)
  recorded,         \* ids passed to recordTradeResult, in call order
  tradeLog,         \* ids passed to logTrade, in call order
  delivered,        \* per handled closure: the sinks (csv, supabase, telegram) it reached
  openedToday,      \* trades opened by executeSignal since the last daily reset
  exitTrace,        \* per position of the last check: exit applied vs evaluateExit
  pc,               \* position of the 5m cron callback
  cpArgs,           \* arguments of the checkPositions call in flight
  pendingSignal,    \* signal handed to handleSignal, not yet executed
  execResult,       \* outcome of the last executeSignal call of this cycle
  shutdown,         \* "running" | "closing" | "exited"
  rcResult,         \* RiskManager harness: last checkRiskAllowance call
  riskOps,          \* RiskManager harness: operations applied so far
  xIn,              \* ExitStrategy harness: inputs of evaluateExit
  xOut,             \* ExitStrategy harness: the decision evaluateExit returned
  market15m,        \* index: what the 15m caches show at the current tick
  cycles,           \* index: the 5m cron callbacks in flight, oldest first
  swingCache,       \* index: per timeframe, length of the swing array and swings formed
  lastSMSEvent,     \* index: per timeframe, the debounce record
  letThrough,       \* <<timeframe, event, swing count>> debounceSMS has passed so far
  dbCall,           \* the last debounceSMS call: arguments, record before, result
  sdIn,             \* SignalDetector harness: the context detectSignal is given
  sdOut,            \* SignalDetector harness: what detectSignal returned
  fvgCandles,       \* index: closed 5m candles of candleCache, oldest first
  activeFVGs,       \* index: the active gap pool
  fvgCall,          \* the last updateFVGStates call: gaps before, candles, gaps after
  retiredFVGs,      \* ids of the gaps mergeFVGs has dropped as FILLED or VIOLATED
  liqCandles,       \* index: closed 5m candles of candleCache since the swing, oldest first
  liquidityLevels,  \* index: the liquidity levels of the last full analysis cycle
  liqRetired,       \* levels (type, price) a cycle has presented as SWEPT or EXPIRED
  marketKind,       \* the kind of 5m market the exchange serves
  clock5m,          \* time of the newest closed 5m candle at the exchange, in candles
  candleCache5m,    \* index: candleCache['5m'], as candle times, oldest first
  swingCache5m,     \* index: swingCache['5m'], oldest first
  swingReports,     \* every swing detectNewSwings has reported as new, in order
  recentSweeps,     \* index: the recent-sweeps cache, as sweep numbers
  sweepCount,       \* sweeps found so far
  fnIn,             \* the arguments of the analyzer function under study
  fnOut,            \* what that function returned
  tkKind,           \* the cron job whose callback is running
  tkPhase,          \* where that callback stands
  tkAttempt,        \* the attempt number of the fetch in flight
  tkSleeps,         \* the backoff delays slept in this tick, in ms
  tkFailed,         \* whether this tick's timeframe update has failed
  tkSteps,          \* the steps of the callback that have run in this tick
  tkLog,            \* the error lines logged so far
  tkTicks,          \* ticks started so far
  tkAlive,          \* whether the process is running
  sinksDown         \* the sinks (csv, supabase, telegram) that fail at present

vars == <<openPositions, tradeHistory, riskState, accountBalance, manualKillSwitch,
          lastPrice, nextId, recorded, tradeLog, delivered, openedToday, exitTrace, pc,
          cpArgs,
          pendingSignal, execResult, shutdown, rcResult, riskOps, xIn, xOut,
          market15m, cycles, swingCache, lastSMSEvent, letThrough, dbCall,
          sdIn, sdOut, fvgCandles, activeFVGs, fvgCall, retiredFVGs,
          liqCandles, liquidityLevels, liqRetired, marketKind, clock5m,
          candleCache5m, swingCache5m, swingReports, recentSweeps, sweepCount,
          fnIn, fnOut, tkKind, tkPhase, tkAttempt, tkSleeps, tkFailed, tkSteps,
          tkLog, tkTicks, tkAlive, sinksDown>>

\* ------------------------------------------------------------------ bounds

MaxTrades == 1
MaxRiskOps == 3
MaxCycles == 2
MaxNewSwings == 2

\* --------------------------------------------------------------- constants
\* RISK_CONFIG, percentages as whole percents, risk per trade in basis points

maxRiskPerTrade == 100
postLossRisk == 50
post2LossRisk == 25
maxDailyLoss == 2
maxWeeklyDrawdown == 5
killSwitchDrawdown == 15
maxTradesPerDay == 1
minRR == 2
defaultLeverage == 3
PAPER_BALANCE == 10000
\* paperTrader: slippage and breakeven buffer in basis points, time exit 15:30 NY
SLIPPAGE == 5
BE_BUFFER == 5
TIME_EXIT_NY_HOUR == 15
TIME_EXIT_NY_MINUTE == 30
\* runTimeframeUpdate keeps the newest 200 swings per timeframe
SWING_CACHE_SIZE == 200

\* ----------------------------------------------------------------- helpers

Abs(x) == IF x < 0 THEN -x ELSE x
Min(a, b) == IF a < b THEN a ELSE b

RECURSIVE GCD(_, _)
GCD(a, b) == IF b = 0 THEN a ELSE GCD(b, a % b)

\* x * (num / den) for den > 0, on the reduced fraction, truncated toward zero
MulRatio(x, num, den) ==
  LET g == GCD(Abs(num), den)
      n == Abs(num) \div g
      d == den \div g
      m == (x * n) \div d
  IN IF num < 0 THEN -m ELSE m

\* x * bp / 10000
BasisPoints(x, bp) == (x * bp) \div 10000

TerminalStatuses == {"TP2_HIT", "STOPPED", "TIME_EXIT", "MANUAL", "KILLED", "STRUCTURAL"}
LiveStatuses == {"PENDING", "OPEN", "TP1_HIT"}

\* ------------------------------------------------------------ RiskManager

InitRiskState ==
  [consecutiveLosses |-> 0, tradesToday |-> 0, dailyPnlUsdt |-> 0, weeklyPnlUsdt |-> 0,
   peakEquity |-> PAPER_BALANCE, currentEquity |-> PAPER_BALANCE]

\* faulty variant: the size is not capped at balance * leverage
calculatePositionSizeUncapped(balance, riskPercent, entryPrice, stopLoss, leverage) ==
  LET dist == Abs(entryPrice - stopLoss)
  IN IF dist = 0 THEN 0
     ELSE MulRatio(BasisPoints(balance, riskPercent), entryPrice, dist) * leverage

calculatePositionSize(balance, riskPercent, entryPrice, stopLoss, leverage) ==
  LET dist == Abs(entryPrice - stopLoss)
      riskAmountUsdt == BasisPoints(balance, riskPercent)
      rawSize == MulRatio(riskAmountUsdt, entryPrice, dist)
      positionSize == rawSize * leverage
      maxAllowed == balance * leverage
  IN IF dist = 0 THEN 0 ELSE Min(positionSize, maxAllowed)

Blocked(reason) ==
  [allowed |-> FALSE, reason |-> reason, riskPercent |-> 0, positionSizeUsdt |-> 0, leverage |-> 0]

RiskPercentFor(rs) ==
  IF rs.consecutiveLosses = 0 THEN maxRiskPerTrade
  ELSE IF rs.consecutiveLosses = 1 THEN postLossRisk
  ELSE post2LossRisk

\* proposedRR is in tenths (20 = 2.0)
\* faulty variant: the weekly cap is tested before the kill switch
checkRiskAllowanceSwapped(rs, balance, proposedRR, entryPrice, stopLoss) ==
  IF rs.peakEquity > 0 /\ rs.weeklyPnlUsdt * 100 <= -maxWeeklyDrawdown * rs.peakEquity
    THEN Blocked("WEEKLY")
  ELSE IF rs.peakEquity > 0
          /\ (rs.peakEquity - rs.currentEquity) * 100 >= killSwitchDrawdown * rs.peakEquity
    THEN Blocked("KILL_SWITCH")
  ELSE IF rs.currentEquity > 0 /\ rs.dailyPnlUsdt * 100 <= -maxDailyLoss * rs.currentEquity
    THEN Blocked("DAILY")
  ELSE IF rs.tradesToday >= maxTradesPerDay THEN Blocked("MAX_TRADES")
  ELSE IF proposedRR < minRR * 10 THEN Blocked("RR")
  ELSE [allowed |-> TRUE, reason |-> "OK", riskPercent |-> RiskPercentFor(rs),
        positionSizeUsdt |-> calculatePositionSize(balance, RiskPercentFor(rs),
                                                   entryPrice, stopLoss, defaultLeverage),
        leverage |-> defaultLeverage]

checkRiskAllowance(rs, balance, proposedRR, entryPrice, stopLoss) ==
  IF rs.peakEquity > 0
     /\ (rs.peakEquity - rs.currentEquity) * 100 >= killSwitchDrawdown * rs.peakEquity
    THEN Blocked("KILL_SWITCH")
  ELSE IF rs.peakEquity > 0 /\ rs.weeklyPnlUsdt * 100 <= -maxWeeklyDrawdown * rs.peakEquity
    THEN Blocked("WEEKLY")
  ELSE IF rs.currentEquity > 0 /\ rs.dailyPnlUsdt * 100 <= -maxDailyLoss * rs.currentEquity
    THEN Blocked("DAILY")
  ELSE IF rs.tradesToday >= maxTradesPerDay THEN Blocked("MAX_TRADES")
  ELSE IF proposedRR < minRR * 10 THEN Blocked("RR")
  ELSE [allowed |-> TRUE, reason |-> "OK", riskPercent |-> RiskPercentFor(rs),
        positionSizeUsdt |-> calculatePositionSize(balance, RiskPercentFor(rs),
                                                   entryPrice, stopLoss, defaultLeverage),
        leverage |-> defaultLeverage]

recordTradeResult(rs, pnlUsdt, isWin) ==
  LET eq == rs.currentEquity + pnlUsdt
  IN [consecutiveLosses |-> IF isWin THEN 0 ELSE rs.consecutiveLosses + 1,
      tradesToday |-> rs.tradesToday + 1,
      dailyPnlUsdt |-> rs.dailyPnlUsdt + pnlUsdt,
      weeklyPnlUsdt |-> rs.weeklyPnlUsdt + pnlUsdt,
      peakEquity |-> IF eq > rs.peakEquity THEN eq ELSE rs.peakEquity,
      currentEquity |-> eq]

resetDaily(rs) == [rs EXCEPT !.tradesToday = 0, !.dailyPnlUsdt = 0]

resetWeekly(rs) == [rs EXCEPT !.weeklyPnlUsdt = 0]

\* faulty variant: the peak follows the equity down
updateEquityTracking(rs, equity) ==
  [rs EXCEPT !.currentEquity = equity, !.peakEquity = equity]

updateEquity(rs, equity) ==
  [rs EXCEPT !.currentEquity = equity,
             !.peakEquity = IF equity > rs.peakEquity THEN equity ELSE rs.peakEquity]

\* faulty variant: the threshold itself does not trip the switch
isKillSwitchActiveStrict(rs) ==
  IF rs.peakEquity <= 0 THEN FALSE
  ELSE (rs.peakEquity - rs.currentEquity) * 100 > killSwitchDrawdown * rs.peakEquity

isKillSwitchActive(rs) ==
  IF rs.peakEquity <= 0 THEN FALSE
  ELSE (rs.peakEquity - rs.currentEquity) * 100 >= killSwitchDrawdown * rs.peakEquity

\* ----------------------------------------------------------- ExitStrategy
\* currentTime is the NY wall-clock time <<hour, minute>> that toNYTime yields

NO_EXIT == [shouldExit |-> FALSE, reason |-> "NONE", exitPercent |-> 0,
            newStopLoss |-> 0, exitPrice |-> 0]

Decision(reason, percent, price, newStop) ==
  [shouldExit |-> TRUE, reason |-> reason, exitPercent |-> percent,
   newStopLoss |-> newStop, exitPrice |-> price]

calculateBreakevenStop(trade) ==
  LET buffer == BasisPoints(trade.entryPrice, BE_BUFFER)
  IN IF trade.direction = "LONG" THEN trade.entryPrice + buffer
     ELSE trade.entryPrice - buffer

shouldTimeExit(t) == t[1] > 15 \/ (t[1] = 15 /\ t[2] >= 30)

checkStructuralExit(trade, structure15m) ==
  IF structure15m.trend = "UNDEFINED" THEN FALSE
  ELSE IF trade.direction = "LONG"
    THEN structure15m.lastEvent \in {"SMS_BEARISH", "CHOCH_BEARISH"}
  ELSE IF trade.direction = "SHORT"
    THEN structure15m.lastEvent \in {"SMS_BULLISH", "CHOCH_BULLISH"}
  ELSE FALSE

SlHit(trade, price) ==
  IF trade.direction = "LONG" THEN price <= trade.stopLoss ELSE price >= trade.stopLoss
Tp1Reached(trade, price) ==
  IF trade.direction = "LONG" THEN price >= trade.tp1Level ELSE price <= trade.tp1Level
Tp2Reached(trade, price) ==
  IF trade.direction = "LONG" THEN price >= trade.tp2Level ELSE price <= trade.tp2Level

\* faulty variant: the time exit is tested before the take-profits
evaluateExitTimeFirst(trade, currentPrice, currentTime, structureState15m, isKillSwitch) ==
  IF trade.status \in {"STOPPED", "TP2_HIT", "TIME_EXIT"} THEN NO_EXIT
  ELSE IF isKillSwitch THEN Decision("KILL_SWITCH", 100, currentPrice, 0)
  ELSE IF SlHit(trade, currentPrice) THEN Decision("STOP_LOSS", 100, trade.stopLoss, 0)
  ELSE IF shouldTimeExit(currentTime) THEN Decision("TIME_EXIT", 100, currentPrice, 0)
  ELSE IF ~trade.tp1Hit /\ Tp1Reached(trade, currentPrice)
    THEN Decision("TP1", 50, trade.tp1Level, calculateBreakevenStop(trade))
  ELSE IF trade.tp1Hit /\ Tp2Reached(trade, currentPrice)
    THEN Decision("TP2", 100, trade.tp2Level, 0)
  ELSE IF checkStructuralExit(trade, structureState15m)
    THEN Decision("STRUCTURAL", 100, currentPrice, 0)
  ELSE NO_EXIT

evaluateExit(trade, currentPrice, currentTime, structureState15m, isKillSwitch) ==
  IF trade.status \in {"STOPPED", "TP2_HIT", "TIME_EXIT"} THEN NO_EXIT
  ELSE IF isKillSwitch THEN Decision("KILL_SWITCH", 100, currentPrice, 0)
  ELSE IF SlHit(trade, currentPrice) THEN Decision("STOP_LOSS", 100, trade.stopLoss, 0)
  ELSE IF ~trade.tp1Hit /\ Tp1Reached(trade, currentPrice)
    THEN Decision("TP1", 50, trade.tp1Level, calculateBreakevenStop(trade))
  ELSE IF trade.tp1Hit /\ Tp2Reached(trade, currentPrice)
    THEN Decision("TP2", 100, trade.tp2Level, 0)
  ELSE IF shouldTimeExit(currentTime) THEN Decision("TIME_EXIT", 100, currentPrice, 0)
  ELSE IF checkStructuralExit(trade, structureState15m)
    THEN Decision("STRUCTURAL", 100, currentPrice, 0)
  ELSE NO_EXIT

\* ------------------------------------------------------------ PaperTrader

calcPnL(direction, entryPrice, exitPrice, sizeUsdt, leverage) ==
  LET priceDiff == IF direction = "LONG" THEN exitPrice - entryPrice
                   ELSE entryPrice - exitPrice
  IN MulRatio(sizeUsdt * leverage, priceDiff, entryPrice)

\* the closed Trade that closePaperPosition pushes to tradeHistory and returns
closePaperPosition(pos, exitPrice, status, partialPnl) ==
  LET sizeRemaining == (pos.trade.sizeUsdt * pos.remainingSizePercent) \div 100
      remainingPnl == calcPnL(pos.trade.direction, pos.trade.entryPrice, exitPrice,
                              sizeRemaining, pos.trade.leverage)
  IN [id |-> pos.trade.id, direction |-> pos.trade.direction,
      entryPrice |-> pos.trade.entryPrice, sizeUsdt |-> pos.trade.sizeUsdt,
      leverage |-> pos.trade.leverage, stopLoss |-> pos.trade.stopLoss,
      tp1Level |-> pos.trade.tp1Level, tp2Level |-> pos.trade.tp2Level,
      tp1Hit |-> pos.trade.tp1Hit, exitPrice |-> exitPrice,
      pnlUsdt |-> partialPnl + remainingPnl, status |-> status]

FillPrice(direction, ce) ==
  IF direction = "LONG" THEN ce + BasisPoints(ce, SLIPPAGE) ELSE ce - BasisPoints(ce, SLIPPAGE)

\* the PaperPosition that openPaperTrade pushes; its trade is what it returns
openPaperTrade(signal, sizeUsdt, leverage, id) ==
  LET fillPrice == FillPrice(signal.direction, signal.fvgCE)
  IN [trade |-> [id |-> id, direction |-> signal.direction, entryPrice |-> fillPrice,
                 sizeUsdt |-> sizeUsdt, leverage |-> leverage,
                 stopLoss |-> signal.stopLoss, tp1Level |-> signal.tp1,
                 tp2Level |-> signal.tp2, tp1Hit |-> FALSE, status |-> "PENDING"],
      entryFilled |-> FALSE, tp1Executed |-> FALSE, beStopMoved |-> FALSE,
      currentStopLoss |-> signal.stopLoss, remainingSizePercent |-> 100,
      partialPnlUsdt |-> 0, fvgTop |-> signal.fvgTop, fvgBottom |-> signal.fvgBottom,
      fvgCE |-> signal.fvgCE, lastCheckPrice |-> fillPrice]

checkTimeExit(t) ==
  t[1] > TIME_EXIT_NY_HOUR \/ (t[1] = TIME_EXIT_NY_HOUR /\ t[2] >= TIME_EXIT_NY_MINUTE)

\* TP1 partial close: 50% realised, stop moved to breakeven + buffer
\* faulty variant: the partial close is booked but not remembered
Tp1PartialCloseForgotten(pos) ==
  LET tp1Pnl == calcPnL(pos.trade.direction, pos.trade.entryPrice, pos.trade.tp1Level,
                        pos.trade.sizeUsdt \div 2, pos.trade.leverage)
  IN [pos EXCEPT !.partialPnlUsdt = pos.partialPnlUsdt + tp1Pnl,
                 !.trade.status = "TP1_HIT",
                 !.remainingSizePercent = pos.remainingSizePercent \div 2]

Tp1PartialClose(pos) ==
  LET tp1Pnl == calcPnL(pos.trade.direction, pos.trade.entryPrice, pos.trade.tp1Level,
                        pos.trade.sizeUsdt \div 2, pos.trade.leverage)
      buffer == BasisPoints(pos.trade.entryPrice, BE_BUFFER)
  IN [pos EXCEPT !.partialPnlUsdt = pos.partialPnlUsdt + tp1Pnl,
                 !.tp1Executed = TRUE,
                 !.trade.tp1Hit = TRUE,
                 !.trade.status = "TP1_HIT",
                 !.remainingSizePercent = 50,
                 !.currentStopLoss = IF pos.trade.direction = "LONG"
                                       THEN pos.trade.entryPrice + buffer
                                       ELSE pos.trade.entryPrice - buffer,
                 !.beStopMoved = TRUE]

\* faulty variant: TP2 is tested without waiting for TP1
Tp2ArmedAlways(pos) == TRUE

Tp2Armed(pos) == pos.tp1Executed

EntryRetraced(pos, price) ==
  IF pos.trade.direction = "LONG" THEN price <= pos.fvgTop ELSE price >= pos.fvgBottom

FillEntry(pos) ==
  [pos EXCEPT !.entryFilled = TRUE, !.trade.status = "OPEN",
              !.trade.entryPrice = FillPrice(pos.trade.direction, pos.fvgCE)]

StopHit(pos, price) ==
  IF pos.trade.direction = "LONG" THEN price <= pos.currentStopLoss
  ELSE price >= pos.currentStopLoss

Stay(kind, pos, alert, partial) ==
  [kind |-> kind, closes |-> FALSE, pos |-> pos, alert |-> alert, partial |-> partial,
   exitPrice |-> 0, status |-> pos.trade.status]
Close(kind, pos, alert, exitPrice) ==
  [kind |-> kind, closes |-> TRUE, pos |-> pos, alert |-> alert, partial |-> 0,
   exitPrice |-> exitPrice, status |-> kind]

\* one iteration of the loop of updatePaperPositions, for one position
StepPosition(pos0, currentPrice, isTimeExit) ==
  LET pos == [pos0 EXCEPT !.lastCheckPrice = currentPrice]
  IN IF ~pos.entryFilled
       THEN IF EntryRetraced(pos, currentPrice)
              THEN Stay("FILL", FillEntry(pos), TRUE, 0)
              ELSE Stay("WAIT", pos, FALSE, 0)
     ELSE IF isTimeExit THEN Close("TIME_EXIT", pos, TRUE, currentPrice)
     ELSE IF StopHit(pos, currentPrice) THEN Close("STOPPED", pos, FALSE, pos.currentStopLoss)
     ELSE IF Tp2Armed(pos) /\ Tp2Reached(pos.trade, currentPrice)
       THEN Close("TP2_HIT", pos, TRUE, pos.trade.tp2Level)
     ELSE IF ~pos.tp1Executed /\ Tp1Reached(pos.trade, currentPrice)
       THEN Stay("TP1", Tp1PartialClose(pos), TRUE,
                 Tp1PartialClose(pos).partialPnlUsdt - pos.partialPnlUsdt)
     ELSE Stay("NONE", pos, FALSE, 0)

\* faulty variant: the closed position is not found in the list and stays in it
RemoveAtMissed(seq, i) == seq

\* openPositions.splice(i, 1)
RemoveAt(seq, i) == SubSeq(seq, 1, i - 1) \o SubSeq(seq, i + 1, Len(seq))

\* the loop runs from the last position to the first
RECURSIVE UpdateLoop(_, _, _, _)
UpdateLoop(i, acc, currentPrice, isTimeExit) ==
  IF i = 0 THEN acc
  ELSE LET pos0 == acc.open[i]
           r == StepPosition(pos0, currentPrice, isTimeExit)
           closed == closePaperPosition(r.pos, r.exitPrice, r.status, r.pos.partialPnlUsdt)
           tr == IF pos0.entryFilled
                   THEN <<[pre |-> pos0, kind |-> r.kind, exitPrice |-> r.exitPrice]>>
                   ELSE <<>>
       IN UpdateLoop(i - 1,
            [open |-> IF r.closes THEN RemoveAt(acc.open, i)
                      ELSE [acc.open EXCEPT ![i] = r.pos],
             closedTrades |-> IF r.closes THEN Append(acc.closedTrades, closed)
                              ELSE acc.closedTrades,
             alerts |-> acc.alerts + (IF r.alert THEN 1 ELSE 0),
             partialPnlRealized |-> acc.partialPnlRealized + r.partial,
             trace |-> acc.trace \o tr],
            currentPrice, isTimeExit)

updatePaperPositions(positions, currentPrice, currentTime) ==
  UpdateLoop(Len(positions),
             [open |-> positions, closedTrades |-> <<>>, alerts |-> 0,
              partialPnlRealized |-> 0, trace |-> <<>>],
             currentPrice, checkTimeExit(currentTime))

\* closeAllPaperPositions: filled positions are closed MANUAL, pending ones dropped
RECURSIVE CloseAllLoop(_, _, _)
CloseAllLoop(open, closed, currentPrice) ==
  IF open = <<>> THEN closed
  ELSE IF Head(open).entryFilled
    THEN CloseAllLoop(Tail(open),
           Append(closed, closePaperPosition(Head(open), currentPrice, "MANUAL",
                                             Head(open).partialPnlUsdt)),
           currentPrice)
  ELSE CloseAllLoop(Tail(open), closed, currentPrice)

closeAllPaperPositions(positions, currentPrice) == CloseAllLoop(positions, <<>>, currentPrice)

\* -------------------------------------------------------- PositionManager
\* w = [open, hist, rs, rec, log, out]: positions, history, risk state, the ids
\* handed to recordTradeResult and to logTrade, and the sinks each closure reached

\* faulty variant: the guard against a second position is missing
HasOpenPositionNever(positions) == FALSE

HasOpenPosition(positions) == Len(positions) > 0

\* the sinks a closed trade is written to
SINKS == {"csv", "supabase", "telegram"}

\* faulty variant: the sinks are served first, and a failing one ends the handling
handleClosedThrowing(w, trade) ==
  IF sinksDown # {}
    THEN [w EXCEPT !.log = Append(w.log, trade.id),
                   !.out = Append(w.out, [id |-> trade.id, to |-> SINKS \ sinksDown])]
    ELSE [w EXCEPT !.rs = recordTradeResult(w.rs, trade.pnlUsdt, trade.pnlUsdt > 0),
                   !.rec = Append(w.rec, trade.id),
                   !.log = Append(w.log, trade.id),
                   !.out = Append(w.out, [id |-> trade.id, to |-> SINKS])]

\* recordTradeResult, then logTrade (Promise.allSettled over the CSV and the
\* Supabase writer, each catching its own error), then sendAlert (which catches
\* a failed send): a sink that is down is not reached and nothing is thrown
handleClosed(w, trade) ==
  [w EXCEPT !.rs = recordTradeResult(w.rs, trade.pnlUsdt, trade.pnlUsdt > 0),
            !.rec = Append(w.rec, trade.id),
            !.log = Append(w.log, trade.id),
            !.out = Append(w.out, [id |-> trade.id, to |-> SINKS \ sinksDown])]

RECURSIVE HandleAll(_, _)
HandleAll(w, trades) ==
  IF trades = <<>> THEN w ELSE HandleAll(handleClosed(w, Head(trades)), Tail(trades))

IndexOfId(positions, id) ==
  IF \E i \in 1..Len(positions) : positions[i].trade.id = id
    THEN CHOOSE i \in 1..Len(positions) :
           /\ positions[i].trade.id = id
           /\ \A j \in 1..(i - 1) : positions[j].trade.id # id
    ELSE 0

\* forceClosePaperPosition followed by handleClosed when it returns a trade
ForceClose(w, id, price, reason) ==
  LET idx == IndexOfId(w.open, id)
  IN IF idx = 0 THEN w
     ELSE IF ~w.open[idx].entryFilled THEN [w EXCEPT !.open = RemoveAt(w.open, idx)]
     ELSE LET closed == closePaperPosition(w.open[idx], price, reason,
                                           w.open[idx].partialPnlUsdt)
          IN handleClosed([w EXCEPT !.open = RemoveAt(w.open, idx),
                                    !.hist = Append(w.hist, closed)], closed)

\* step 4 of checkPositions over the snapshot taken when the step starts
RECURSIVE StructuralLoop(_, _, _, _)
StructuralLoop(snapshot, i, w, args) ==
  IF i > Len(snapshot) THEN w
  ELSE LET pos == snapshot[i]
           d == evaluateExit(pos.trade, args.price, args.time, args.structure,
                             args.killSwitch)
           w2 == IF pos.entryFilled /\ d.shouldExit
                    /\ d.reason \in {"KILL_SWITCH", "STRUCTURAL"}
                   THEN ForceClose(w, pos.trade.id, d.exitPrice,
                                   IF d.reason = "KILL_SWITCH" THEN "KILLED"
                                   ELSE "STRUCTURAL")
                   ELSE w
       IN StructuralLoop(snapshot, i + 1, w2, args)

\* faulty variant: the kill switch is left to the paper trader's next update
CheckStep4Skipped(w, args) == w

CheckStep4(w, args) == StructuralLoop(w.open, 1, w, args)

\* steps 1-3 of checkPositions: paper update, partial PnL, closed trades
CheckStep1(w, price, time) ==
  LET u == updatePaperPositions(w.open, price, time)
  IN [w |-> HandleAll([w EXCEPT !.open = u.open, !.hist = w.hist \o u.closedTrades],
                      u.closedTrades),
      partial |-> u.partialPnlRealized,
      awaited |-> (u.closedTrades # <<>> \/ u.alerts > 0),
      trace |-> [i \in 1..Len(u.trace) |->
                   [pre |-> u.trace[i].pre, kind |-> u.trace[i].kind,
                    exitPrice |-> u.trace[i].exitPrice, price |-> price, time |-> time]]]

World == [open |-> openPositions, hist |-> tradeHistory, rs |-> riskState,
          rec |-> recorded, log |-> tradeLog, out |-> delivered]

SetWorld(w) ==
  /\ openPositions' = w.open
  /\ tradeHistory' = w.hist
  /\ riskState' = w.rs
  /\ recorded' = w.rec
  /\ tradeLog' = w.log
  /\ delivered' = w.out
  /\ openedToday' = openedToday

\* ------------------------------------------------------------------ inputs

\* 5m closes: beyond the LONG stop and the SHORT targets, inside the gap (and
\* between entry and the moved stop of either direction), beyond the LONG
\* targets and the SHORT stop
Prices == {3900000, 4003000, 4100000}

Signals ==
  { [direction |-> "LONG", fvgTop |-> 4020000, fvgBottom |-> 3980000, fvgCE |-> 4000000,
     stopLoss |-> 3960000, tp1 |-> 4080000, tp2 |-> 4100000, rrRatio |-> 20],
    [direction |-> "SHORT", fvgTop |-> 4020000, fvgBottom |-> 3980000, fvgCE |-> 4000000,
     stopLoss |-> 4040000, tp1 |-> 3920000, tp2 |-> 3900000, rrRatio |-> 20] }

\* close of the newest backfilled 5m candle at startup
StartPrice == CHOOSE p \in Prices : \A q \in Prices : Abs(q - 4000000) >= Abs(p - 4000000)

NoSignal == [direction |-> "NONE"]

NYTimes == {<<10, 0>>, <<15, 29>>, <<15, 30>>, <<16, 5>>}

CheckTimes == {<<10, 0>>, <<15, 30>>}

\* what analyzeStructure returns for the 15m cache: a trend, and always the
\* event NONE
Structures ==
  { [trend |-> t, lastEvent |-> "NONE"] : t \in {"BULLISH", "BEARISH", "UNDEFINED"} }

NoArgs == [price |-> 0, time |-> <<0, 0>>,
           structure |-> [trend |-> "UNDEFINED", lastEvent |-> "NONE"],
           killSwitch |-> FALSE]

\* variable groups
paperVars == <<openPositions, tradeHistory>>
ledgerVars == <<recorded, tradeLog, delivered, openedToday>>
cycleVars == <<pc, cpArgs, pendingSignal, execResult, exitTrace>>
riskHarness == <<rcResult, riskOps>>
exitHarness == <<xIn, xOut>>
debounceVars == <<swingCache, lastSMSEvent, letThrough, dbCall>>
signalHarness == <<sdIn, sdOut>>
fvgVars == <<fvgCandles, activeFVGs, fvgCall, retiredFVGs>>
liqVars == <<liqCandles, liquidityLevels, liqRetired>>
cacheVars == <<marketKind, clock5m, candleCache5m, swingCache5m, swingReports, recentSweeps, sweepCount>>
fnVars == <<fnIn, fnOut>>
tickVars == <<tkKind, tkPhase, tkAttempt, tkSleeps, tkFailed, tkSteps, tkLog, tkTicks, tkAlive>>
sinkVars == <<sinksDown>>
fvgRest == <<liqVars, cacheVars, fnVars, tickVars, sinkVars>>
liqRest == <<fvgVars, cacheVars, fnVars, tickVars, sinkVars>>
cacheRest == <<fvgVars, liqVars, fnVars, tickVars, sinkVars>>
fnRest == <<fvgVars, liqVars, cacheVars, tickVars, sinkVars>>
tickRest == <<fvgVars, liqVars, cacheVars, fnVars, sinkVars>>
sinkRest == <<fvgVars, liqVars, cacheVars, fnVars, tickVars>>
analyzerHarness == <<fvgVars, liqVars, cacheVars, fnVars, tickVars, sinkVars>>
auxHarness == <<market15m, cycles, debounceVars, signalHarness, analyzerHarness>>

Timeframes == {"5m", "15m"}
NoSMSRecord == [set |-> FALSE]

\* the 15m caches before any swing has formed
NoMarket == [trend |-> "UNDEFINED", event |-> "NONE"]

\* variables used by one specification only, at rest in the others
AuxIdle ==
  /\ market15m = NoMarket
  /\ cycles = <<>>
  /\ swingCache = [tf \in Timeframes |-> [len |-> 0, formed |-> 0]]
  /\ lastSMSEvent = [tf \in Timeframes |-> NoSMSRecord]
  /\ letThrough = {}
  /\ dbCall = [called |-> FALSE]
  /\ sdIn = [set |-> FALSE]
  /\ sdOut = [done |-> FALSE]

FvgIdle ==
  /\ fvgCandles = <<>>
  /\ activeFVGs = <<>>
  /\ fvgCall = [called |-> FALSE]
  /\ retiredFVGs = {}

LiqIdle ==
  /\ liqCandles = <<>>
  /\ liquidityLevels = <<>>
  /\ liqRetired = {}

CacheIdle ==
  /\ marketKind = "NONE"
  /\ clock5m = 0
  /\ candleCache5m = <<>>
  /\ swingCache5m = <<>>
  /\ swingReports = <<>>
  /\ recentSweeps = <<>>
  /\ sweepCount = 0

FnIdle ==
  /\ fnIn = [set |-> FALSE]
  /\ fnOut = [done |-> FALSE]

TickIdle ==
  /\ tkKind = "none"
  /\ tkPhase = "idle"
  /\ tkAttempt = 0
  /\ tkSleeps = <<>>
  /\ tkFailed = FALSE
  /\ tkSteps = {}
  /\ tkLog = <<>>
  /\ tkTicks = 0
  /\ tkAlive = TRUE

SinkIdle ==
  /\ sinksDown = {}

\* the analyzer variables at rest, but for those of the specification named
AnalyzerIdle(own) ==
  /\ IF own = "fvg" THEN TRUE ELSE FvgIdle
  /\ IF own = "liq" THEN TRUE ELSE LiqIdle
  /\ IF own = "cache" THEN TRUE ELSE CacheIdle
  /\ IF own = "fn" THEN TRUE ELSE FnIdle
  /\ IF own = "tick" THEN TRUE ELSE TickIdle
  /\ IF own = "sink" THEN TRUE ELSE SinkIdle

\* harness variables of the other specifications, constant under Spec
HarnessIdle ==
  /\ rcResult = [called |-> FALSE]
  /\ riskOps = 0
  /\ xIn = [set |-> FALSE]
  /\ xOut = [done |-> FALSE]
  /\ AuxIdle

\* ------------------------------------------------- Spec: the 5-minute cycle

\* the state after construction, analyzer variables left open
CoreInit ==
  /\ openPositions = <<>>
  /\ tradeHistory = <<>>
  /\ riskState = InitRiskState
  /\ accountBalance = PAPER_BALANCE
  /\ manualKillSwitch = FALSE
  /\ lastPrice = StartPrice
  /\ nextId = 0
  /\ recorded = <<>>
  /\ tradeLog = <<>>
  /\ delivered = <<>>
  /\ openedToday = 0
  /\ exitTrace = <<>>
  /\ pc = "idle"
  /\ cpArgs = NoArgs
  /\ pendingSignal = NoSignal
  /\ execResult = "NONE"
  /\ shutdown = "running"
  /\ HarnessIdle

Init == CoreInit /\ AnalyzerIdle("none")

Alive == shutdown # "exited"

\* cron */5: runTimeframeUpdate('5m') merges the new candle.  The shutdown
\* handler's only await is one alert send, shorter than the cron period: a
\* cycle in flight goes on during it, a new tick does not start
PriceUpdate(p) ==
  /\ shutdown = "running" /\ pc = "idle"
  /\ lastPrice' = p
  /\ pc' = "check"
  /\ exitTrace' = <<>>
  /\ execResult' = "NONE"
  /\ UNCHANGED <<paperVars, ledgerVars, riskState, accountBalance, manualKillSwitch,
                 nextId, cpArgs, pendingSignal, shutdown, riskHarness, exitHarness, auxHarness>>

\* checkPositions up to its first await; when nothing was closed and no alert
\* is pending there is no await and step 4 runs in the same turn
CheckPositions(time, structure) ==
  /\ Alive /\ pc = "check"
  /\ IF ~(Len(openPositions) > 0)
       THEN /\ pc' = "analysis"
            /\ UNCHANGED <<paperVars, ledgerVars, riskState, accountBalance,
                           exitTrace, cpArgs>>
       ELSE LET args == [price |-> lastPrice, time |-> time, structure |-> structure,
                         killSwitch |-> isKillSwitchActive(riskState)]
                s1 == CheckStep1(World, lastPrice, time)
            IN /\ accountBalance' = accountBalance + s1.partial
               /\ exitTrace' = s1.trace
               /\ IF s1.awaited
                    THEN /\ SetWorld(s1.w)
                         /\ cpArgs' = args
                         /\ pc' = "step4"
                    ELSE /\ SetWorld(CheckStep4(s1.w, args))
                         /\ cpArgs' = NoArgs
                         /\ pc' = "analysis"
  /\ UNCHANGED <<manualKillSwitch, lastPrice, nextId, pendingSignal, execResult,
                 shutdown, riskHarness, exitHarness, auxHarness>>

\* checkPositions after its awaits: structural and kill-switch exits
CheckPositionsStep4 ==
  /\ Alive /\ pc = "step4"
  /\ SetWorld(CheckStep4(World, cpArgs))
  /\ cpArgs' = NoArgs
  /\ exitTrace' = <<>>
  /\ pc' = "analysis"
  /\ UNCHANGED <<accountBalance, manualKillSwitch, lastPrice, nextId, pendingSignal,
                 execResult, shutdown, riskHarness, exitHarness, auxHarness>>

\* runAnalysisCycle ends without a signal (no killzone, kill switch, no setup)
AnalysisNoSignal ==
  /\ Alive /\ pc = "analysis"
  /\ pc' = "idle"
  /\ exitTrace' = <<>>
  /\ UNCHANGED <<paperVars, ledgerVars, riskState, accountBalance, manualKillSwitch,
                 lastPrice, nextId, cpArgs, pendingSignal, execResult, shutdown,
                 riskHarness, exitHarness, auxHarness>>

\* runAnalysisCycle passes its kill-switch check and detectSignal returns a
\* signal; handleSignal awaits its alert before executing it.  Signals keep
\* arriving until MaxTrades trades were opened and none of them is open
AnalysisSignalUpTo(sig, trades) ==
  /\ Alive /\ pc = "analysis"
  /\ nextId < trades \/ Len(openPositions) > 0
  /\ ~(isKillSwitchActive(riskState) \/ manualKillSwitch)
  /\ pendingSignal' = sig
  /\ pc' = "signal"
  /\ exitTrace' = <<>>
  /\ UNCHANGED <<paperVars, ledgerVars, riskState, accountBalance, manualKillSwitch,
                 lastPrice, nextId, cpArgs, execResult, shutdown,
                 riskHarness, exitHarness, auxHarness>>

AnalysisSignal(sig) == AnalysisSignalUpTo(sig, MaxTrades)

\* PositionManager.executeSignal(signal, accountBalance)
ExecuteSignal ==
  /\ Alive /\ pc = "signal"
  /\ LET sig == pendingSignal
         riskCheck == checkRiskAllowance(riskState, accountBalance, sig.rrRatio,
                                         sig.fvgCE, sig.stopLoss)
     IN IF HasOpenPosition(openPositions)
          THEN /\ execResult' = "SKIPPED"
               /\ UNCHANGED <<openPositions, nextId, openedToday>>
        ELSE IF ~riskCheck.allowed
          THEN /\ execResult' = "REJECTED"
               /\ UNCHANGED <<openPositions, nextId, openedToday>>
        ELSE /\ openedToday' = openedToday + 1
             /\ openPositions' =
                  Append(openPositions,
                         openPaperTrade(sig, riskCheck.positionSizeUsdt,
                                        riskCheck.leverage, nextId + 1))
             /\ nextId' = nextId + 1
             /\ execResult' = "OPENED"
  /\ pendingSignal' = NoSignal
  /\ pc' = "idle"
  /\ UNCHANGED <<tradeHistory, recorded, tradeLog, delivered, riskState, accountBalance, manualKillSwitch,
                 lastPrice, exitTrace, cpArgs, shutdown, riskHarness, exitHarness, auxHarness>>

RECURSIVE OpenPnL(_, _)
OpenPnL(positions, price) ==
  IF positions = <<>> THEN 0
  ELSE (IF Head(positions).entryFilled /\ price # 0
          THEN calcPnL(Head(positions).trade.direction, Head(positions).trade.entryPrice,
                       price, Head(positions).trade.sizeUsdt, Head(positions).trade.leverage)
          ELSE 0) + OpenPnL(Tail(positions), price)

\* cron hourly: updateEquity(accountBalance + openPnL)
HourlyEquity ==
  /\ Alive
  /\ riskState' = updateEquity(riskState, accountBalance + OpenPnL(openPositions, lastPrice))
  /\ riskState' # riskState
  /\ UNCHANGED <<paperVars, ledgerVars, accountBalance, manualKillSwitch, lastPrice,
                 nextId, cycleVars, shutdown, riskHarness, exitHarness, auxHarness>>

\* cron 00:00 UTC
ResetDaily ==
  /\ Alive
  /\ riskState' = resetDaily(riskState)
  /\ openedToday' = 0
  /\ <<riskState, openedToday>>' # <<riskState, openedToday>>
  /\ UNCHANGED <<paperVars, recorded, tradeLog, delivered, accountBalance, manualKillSwitch, lastPrice,
                 nextId, cycleVars, shutdown, riskHarness, exitHarness, auxHarness>>

\* cron Monday 00:00 UTC
ResetWeekly ==
  /\ Alive
  /\ riskState' = resetWeekly(riskState)
  /\ riskState' # riskState
  /\ UNCHANGED <<paperVars, ledgerVars, accountBalance, manualKillSwitch, lastPrice,
                 nextId, cycleVars, shutdown, riskHarness, exitHarness, auxHarness>>

\* telegram /kill
ToggleKill ==
  /\ Alive
  /\ manualKillSwitch' = ~manualKillSwitch
  /\ UNCHANGED <<paperVars, ledgerVars, riskState, accountBalance, lastPrice,
                 nextId, cycleVars, shutdown, riskHarness, exitHarness, auxHarness>>

\* SIGINT / SIGTERM: closeAllPaperPositions at the last known price, then the
\* handler awaits its alert
ShutdownSignal ==
  /\ shutdown = "running"
  /\ IF lastPrice > 0
       THEN /\ tradeHistory' = tradeHistory \o closeAllPaperPositions(openPositions, lastPrice)
            /\ openPositions' = <<>>
       ELSE UNCHANGED paperVars
  /\ shutdown' = "closing"
  /\ UNCHANGED <<ledgerVars, riskState, accountBalance, manualKillSwitch, lastPrice,
                 nextId, cycleVars, riskHarness, exitHarness, auxHarness>>

\* process.exit(0)
ProcessExit ==
  /\ shutdown = "closing"
  /\ shutdown' = "exited"
  /\ UNCHANGED <<paperVars, ledgerVars, riskState, accountBalance, manualKillSwitch,
                 lastPrice, nextId, cycleVars, riskHarness, exitHarness, auxHarness>>

Next ==
  \/ \E p \in Prices : PriceUpdate(p)
  \/ \E t \in CheckTimes, st \in Structures : CheckPositions(t, st)
  \/ CheckPositionsStep4
  \/ AnalysisNoSignal
  \/ \E sig \in Signals : AnalysisSignal(sig)
  \/ ExecuteSignal
  \/ HourlyEquity
  \/ ResetDaily
  \/ ResetWeekly
  \/ ShutdownSignal
  \/ ProcessExit

Spec == Init /\ [][Next]_vars

\* ------------------------------------- SpecRisk: the RiskManager module alone
\* Any sequence of its exported operations, checkRiskAllowance observed

RiskPnLs == {-1500, -600, -250, -150, 300}
RiskEquities == {8500, 8501, 10000, 12000}
RiskRRs == {19, 20, 30}
RiskStops == {3960000, 3980000, 4040000}

RiskInit ==
  /\ Init

RiskRecord(pnl) ==
  /\ riskOps < MaxRiskOps
  /\ riskState' = recordTradeResult(riskState, pnl, pnl > 0)
  /\ riskOps' = riskOps + 1
  /\ rcResult' = [called |-> FALSE]
  /\ UNCHANGED <<paperVars, ledgerVars, accountBalance, manualKillSwitch, lastPrice,
                 nextId, cycleVars, shutdown, exitHarness, auxHarness>>

RiskUpdateEquity(equity) ==
  /\ riskOps < MaxRiskOps
  /\ riskState' = updateEquity(riskState, equity)
  /\ riskOps' = riskOps + 1
  /\ rcResult' = [called |-> FALSE]
  /\ UNCHANGED <<paperVars, ledgerVars, accountBalance, manualKillSwitch, lastPrice,
                 nextId, cycleVars, shutdown, exitHarness, auxHarness>>

RiskResetDaily ==
  /\ riskState' = resetDaily(riskState)
  /\ rcResult' = [called |-> FALSE]
  /\ UNCHANGED <<paperVars, ledgerVars, accountBalance, manualKillSwitch, lastPrice,
                 nextId, cycleVars, shutdown, riskOps, exitHarness, auxHarness>>

RiskResetWeekly ==
  /\ riskState' = resetWeekly(riskState)
  /\ rcResult' = [called |-> FALSE]
  /\ UNCHANGED <<paperVars, ledgerVars, accountBalance, manualKillSwitch, lastPrice,
                 nextId, cycleVars, shutdown, riskOps, exitHarness, auxHarness>>

RiskCheck(rr, stop) ==
  /\ rcResult' = [called |-> TRUE, balance |-> accountBalance, rr |-> rr,
                  entryPrice |-> 4000000, stopLoss |-> stop,
                  killSwitch |-> isKillSwitchActive(riskState),
                  out |-> checkRiskAllowance(riskState, accountBalance, rr, 4000000, stop)]
  /\ UNCHANGED <<paperVars, ledgerVars, riskState, accountBalance, manualKillSwitch,
                 lastPrice, nextId, cycleVars, shutdown, riskOps, exitHarness, auxHarness>>

RiskNext ==
  \/ \E pnl \in RiskPnLs : RiskRecord(pnl)
  \/ \E e \in RiskEquities : RiskUpdateEquity(e)
  \/ RiskResetDaily
  \/ RiskResetWeekly
  \/ \E rr \in RiskRRs, stop \in RiskStops : RiskCheck(rr, stop)

SpecRisk == RiskInit /\ [][RiskNext]_vars

\* --------------------------- SpecExit: evaluateExit on every trade and input

AllStatuses == LiveStatuses \cup TerminalStatuses
TradingTimes == {<<10, 0>>, <<15, 29>>, <<15, 30>>, <<16, 5>>}
Trends == {"BULLISH", "BEARISH", "TRANSITION", "UNDEFINED"}
StructureEvents == {"BMS_BULLISH", "BMS_BEARISH", "CHOCH_BULLISH", "CHOCH_BEARISH",
                    "SMS_BULLISH", "SMS_BEARISH", "NONE"}

\* a trade as the paper trader builds it, at any point of its life or after it
ExitTrades ==
  { [openPaperTrade(sig, 30000, defaultLeverage, 1).trade
       EXCEPT !.status = st, !.tp1Hit = h] :
      sig \in Signals,
      st \in AllStatuses,
      h \in BOOLEAN } 

ExitInputs ==
  { [set |-> TRUE, trade |-> tr, price |-> p, time |-> t,
     structure |-> [trend |-> tnd, lastEvent |-> ev], kill |-> k] :
      tr \in {x \in ExitTrades :
                /\ x.status \in {"PENDING", "OPEN"} => ~x.tp1Hit
                /\ x.status \in {"TP1_HIT", "TP2_HIT"} => x.tp1Hit},
      p \in Prices, t \in TradingTimes, tnd \in Trends, ev \in StructureEvents,
      k \in BOOLEAN }

ExitInit ==
  /\ openPositions = <<>>
  /\ tradeHistory = <<>>
  /\ riskState = InitRiskState
  /\ accountBalance = PAPER_BALANCE
  /\ manualKillSwitch = FALSE
  /\ lastPrice = StartPrice
  /\ nextId = 0
  /\ recorded = <<>>
  /\ tradeLog = <<>>
  /\ delivered = <<>>
  /\ openedToday = 0
  /\ exitTrace = <<>>
  /\ pc = "idle"
  /\ cpArgs = NoArgs
  /\ pendingSignal = NoSignal
  /\ execResult = "NONE"
  /\ shutdown = "running"
  /\ rcResult = [called |-> FALSE]
  /\ riskOps = 0
  /\ xIn \in ExitInputs
  /\ xOut = [done |-> FALSE]
  /\ AuxIdle
  /\ AnalyzerIdle("none")

ExitEvaluate ==
  /\ ~xOut.done
  /\ xOut' = [done |-> TRUE,
              d |-> evaluateExit(xIn.trade, xIn.price, xIn.time, xIn.structure, xIn.kill)]
  /\ UNCHANGED <<paperVars, ledgerVars, riskState, accountBalance, manualKillSwitch,
                 lastPrice, nextId, cycleVars, shutdown, riskHarness, xIn, auxHarness>>

ExitNext == ExitEvaluate

SpecExit == ExitInit /\ [][ExitNext]_vars

\* ------------------- SpecStructure15m: the 5-minute cycle with the 15m caches

\* what swing analysis and detectSMS make of the 15m caches
Markets15m ==
  { [trend |-> "BULLISH", event |-> "NONE"],
    [trend |-> "BEARISH", event |-> "SMS_BEARISH"],
    [trend |-> "BEARISH", event |-> "CHOCH_BEARISH"],
    [trend |-> "BULLISH", event |-> "SMS_BULLISH"] }

\* analyzeStructure: the trend of the swings; lastEvent is always NONE
analyzeStructure(m) == [trend |-> m.trend, lastEvent |-> "NONE"]

\* cron */15: runTimeframeUpdate('15m') merges candles and swings
Market15mUpdate(m) ==
  /\ Alive
  /\ market15m' = m
  /\ UNCHANGED <<paperVars, ledgerVars, riskState, accountBalance, manualKillSwitch,
                 lastPrice, nextId, cycleVars, shutdown, riskHarness, exitHarness, cycles,
                 debounceVars, signalHarness, analyzerHarness>>

\* cron */5: checkPositions(price, new Date(), analyzeStructure(15m caches))
CheckPositions15m(time) == CheckPositions(time, analyzeStructure(market15m))

Next15m ==
  \/ \E p \in Prices : PriceUpdate(p)
  \/ \E m \in Markets15m : Market15mUpdate(m)
  \/ \E t \in CheckTimes : CheckPositions15m(t)
  \/ CheckPositionsStep4
  \/ AnalysisNoSignal
  \/ \E sig \in Signals : AnalysisSignal(sig)
  \/ ExecuteSignal
  \/ HourlyEquity
  \/ ResetDaily
  \/ ResetWeekly
  \/ ShutdownSignal
  \/ ProcessExit

SpecStructure15m == Init /\ [][Next15m]_vars

\* ----------------------- SpecCron5m: the callbacks of the 5-minute trigger
\* node-cron calls the async callback on every matching tick and does not wait
\* for the promise of the previous call; the callback takes no lock

\* cron */5 fires: the callback starts and awaits runTimeframeUpdate('5m')
Tick5m ==
  /\ Len(cycles) < MaxCycles
  /\ cycles' = Append(cycles, [pc |-> "fetch", price |-> 0])
  /\ UNCHANGED <<paperVars, ledgerVars, riskState, accountBalance, manualKillSwitch,
                 lastPrice, nextId, cycleVars, shutdown, riskHarness, exitHarness,
                 market15m, debounceVars, signalHarness, analyzerHarness>>

\* collectTimeframe resolves: the candle is merged into candleCache['5m'], the
\* callback reads the newest close and calls checkPositions, which awaits
CycleFetched(i, p) ==
  /\ i \in 1..Len(cycles) /\ cycles[i].pc = "fetch"
  /\ lastPrice' = p
  /\ cycles' = [cycles EXCEPT ![i] = [pc |-> "check", price |-> p]]
  /\ UNCHANGED <<paperVars, ledgerVars, riskState, accountBalance, manualKillSwitch,
                 nextId, cycleVars, shutdown, riskHarness, exitHarness, market15m,
                 debounceVars, signalHarness, analyzerHarness>>

\* checkPositions returns: the callback calls runAnalysisCycle, which awaits
CycleChecked(i) ==
  /\ i \in 1..Len(cycles) /\ cycles[i].pc = "check"
  /\ cycles' = [cycles EXCEPT ![i].pc = "analysis"]
  /\ UNCHANGED <<paperVars, ledgerVars, riskState, accountBalance, manualKillSwitch,
                 lastPrice, nextId, cycleVars, shutdown, riskHarness, exitHarness,
                 market15m, debounceVars, signalHarness, analyzerHarness>>

\* runAnalysisCycle returns: the callback ends
CycleDone(i) ==
  /\ i \in 1..Len(cycles) /\ cycles[i].pc = "analysis"
  /\ cycles' = RemoveAt(cycles, i)
  /\ UNCHANGED <<paperVars, ledgerVars, riskState, accountBalance, manualKillSwitch,
                 lastPrice, nextId, cycleVars, shutdown, riskHarness, exitHarness,
                 market15m, debounceVars, signalHarness, analyzerHarness>>

NextCron5m ==
  \/ Tick5m
  \/ \E i \in 1..MaxCycles + 1, p \in Prices : CycleFetched(i, p)
  \/ \E i \in 1..MaxCycles + 1 : CycleChecked(i)
  \/ \E i \in 1..MaxCycles + 1 : CycleDone(i)

SpecCron5m == Init /\ [][NextCron5m]_vars

\* ------------------------------ SpecDebounce: debounceSMS and the swing cache

\* debounceSMS(tf, event, swings) on the record of its timeframe; count is
\* swings.length.  The record's field formed is bookkeeping: the number of
\* swings formed when the record was written
debounceSMS(prev, event, count, formed) ==
  IF event = "NONE" THEN [out |-> "NONE", rec |-> prev]
  ELSE IF prev.set /\ prev.event = event /\ prev.swingCount = count
    THEN [out |-> "NONE", rec |-> prev]
  ELSE [out |-> event,
        rec |-> [set |-> TRUE, event |-> event, swingCount |-> count, formed |-> formed]]

\* events detectSMS reports once a trend is defined
DebounceEvents == {"NONE", "SMS_BULLISH", "SMS_BEARISH", "CHOCH_BULLISH"}

\* lengths of a swing array with a defined trend: young, and one short of full
StartLens == {4, SWING_CACHE_SIZE - 1}

DebounceInit ==
  /\ openPositions = <<>>
  /\ tradeHistory = <<>>
  /\ riskState = InitRiskState
  /\ accountBalance = PAPER_BALANCE
  /\ manualKillSwitch = FALSE
  /\ lastPrice = StartPrice
  /\ nextId = 0
  /\ recorded = <<>>
  /\ tradeLog = <<>>
  /\ delivered = <<>>
  /\ openedToday = 0
  /\ exitTrace = <<>>
  /\ pc = "idle"
  /\ cpArgs = NoArgs
  /\ pendingSignal = NoSignal
  /\ execResult = "NONE"
  /\ shutdown = "running"
  /\ rcResult = [called |-> FALSE]
  /\ riskOps = 0
  /\ xIn = [set |-> FALSE]
  /\ xOut = [done |-> FALSE]
  /\ market15m = NoMarket
  /\ cycles = <<>>
  /\ \E n \in StartLens : swingCache = [tf \in Timeframes |-> [len |-> n, formed |-> 0]]
  /\ lastSMSEvent = [tf \in Timeframes |-> NoSMSRecord]
  /\ letThrough = {}
  /\ dbCall = [called |-> FALSE]
  /\ sdIn = [set |-> FALSE]
  /\ sdOut = [done |-> FALSE]
  /\ AnalyzerIdle("none")

SwingsFormedTotal == swingCache["5m"].formed + swingCache["15m"].formed

\* runTimeframeUpdate(tf): one new swing, swingCache[tf] = [...].slice(-200)
SwingFormed(tf) ==
  /\ SwingsFormedTotal < MaxNewSwings
  /\ swingCache' = [swingCache EXCEPT
                      ![tf] = [len |-> Min(swingCache[tf].len + 1, SWING_CACHE_SIZE),
                               formed |-> swingCache[tf].formed + 1]]
  /\ UNCHANGED <<paperVars, ledgerVars, riskState, accountBalance, manualKillSwitch,
                 lastPrice, nextId, cycleVars, shutdown, riskHarness, exitHarness,
                 market15m, cycles, lastSMSEvent, letThrough, dbCall,
                 signalHarness, analyzerHarness>>

\* runAnalysisCycle step 5 for one timeframe: debounceSMS(tf, raw, swingCache[tf])
DebounceCall(tf, raw) ==
  LET prev == lastSMSEvent[tf]
      count == swingCache[tf].len
      r == debounceSMS(prev, raw, count, swingCache[tf].formed)
  IN /\ lastSMSEvent' = [lastSMSEvent EXCEPT ![tf] = r.rec]
     /\ letThrough' = IF r.out = "NONE" THEN letThrough
                      ELSE letThrough \cup {<<tf, r.out, count>>}
     /\ dbCall' = [called |-> TRUE, tf |-> tf, raw |-> raw, count |-> count,
                   prev |-> prev, formed |-> swingCache[tf].formed,
                   passedBefore |-> <<tf, raw, count>> \in letThrough,
                   out |-> r.out]
     /\ UNCHANGED <<paperVars, ledgerVars, riskState, accountBalance, manualKillSwitch,
                    lastPrice, nextId, cycleVars, shutdown, riskHarness, exitHarness,
                    market15m, cycles, swingCache, signalHarness, analyzerHarness>>

DebounceNext ==
  \/ \E tf \in Timeframes : SwingFormed(tf)
  \/ \E tf \in Timeframes, raw \in DebounceEvents : DebounceCall(tf, raw)

SpecDebounce == DebounceInit /\ [][DebounceNext]_vars

\* ------------------------------- SpecSignal: detectSignal on every context

MIN_CONFIDENCE == 50
minScoreForTrigger == 5

BULLISH_TP_TYPES == {"BSL", "EQH", "PDH", "PWH", "SESSION_HIGH"}
BEARISH_TP_TYPES == {"SSL", "EQL", "PDL", "PWL", "SESSION_LOW"}

\* the element of a non-empty set with the greatest timestamp
Latest(S) == CHOOSE x \in S : \A y \in S : y.timestamp <= x.timestamp

findEntryFVG(fvgs, direction) ==
  LET candidates == {f \in fvgs : /\ f.type = direction
                                  /\ f.state \in {"OPEN", "PARTIALLY_FILLED"}
                                  /\ f.quality \in {"HIGH", "MEDIUM"}}
  IN IF candidates = {} THEN {} ELSE {Latest(candidates)}

\* ce of the nearest gap of the other type beyond the entry, as a set of at most one
findTP1FVG(fvgs, direction, entryPrice) ==
  LET targetType == IF direction = "LONG" THEN "BEARISH" ELSE "BULLISH"
      candidates == {f \in fvgs : /\ f.type = targetType
                                  /\ IF direction = "LONG" THEN f.bottom > entryPrice
                                                           ELSE f.top < entryPrice}
      nearest == CHOOSE f \in candidates : \A g \in candidates :
                   IF direction = "LONG" THEN f.bottom <= g.bottom ELSE f.top >= g.top
  IN IF candidates = {} THEN {} ELSE {nearest.ce}

findTP2Level(levels, direction, tp1) ==
  LET targetTypes == IF direction = "LONG" THEN BULLISH_TP_TYPES ELSE BEARISH_TP_TYPES
      candidates == {l \in levels : /\ l.state = "ACTIVE"
                                    /\ l.type \in targetTypes
                                    /\ IF direction = "LONG" THEN l.level > tp1
                                                             ELSE l.level < tp1}
      nearest == CHOOSE l \in candidates : \A m \in candidates :
                   IF direction = "LONG" THEN l.level <= m.level ELSE l.level >= m.level
  IN IF candidates = {} THEN {} ELSE {nearest.level}

\* dist < 0.005 with dist = |level - entryPrice| / entryPrice
hasBlockingLiquidity(levels, direction, entryPrice) ==
  LET blockingTypes == IF direction = "LONG" THEN {"SSL", "EQL", "PDL"}
                                             ELSE {"BSL", "EQH", "PDH"}
  IN \E l \in levels :
       /\ l.type \in blockingTypes /\ l.state = "ACTIVE" /\ l.score >= 5
       /\ Abs(l.level - entryPrice) * 200 < entryPrice
       /\ IF direction = "LONG" THEN l.level < entryPrice ELSE l.level > entryPrice

\* zone of getPremiumDiscountState; an empty or inverted range reads DISCOUNT
PremiumDiscountZone(currentPrice, swingHigh, swingLow) ==
  IF swingHigh.level - swingLow.level <= 0 THEN "DISCOUNT"
  ELSE IF 2 * currentPrice >= swingHigh.level + swingLow.level THEN "PREMIUM"
  ELSE "DISCOUNT"

\* price inside [low + 0.21 range, low + 0.382 range]
isInOTE(price, swingHigh, swingLow) ==
  LET range == swingHigh.level - swingLow.level
  IN IF range <= 0 THEN FALSE
     ELSE /\ (price - swingLow.level) * 100 >= range * 21
          /\ (price - swingLow.level) * 1000 <= range * 382

\* rrRatio is reward / risk, kept as the pair; risk = 0 gives ratio 0
RRAtLeast(reward, risk, k) == risk > 0 /\ reward >= k * risk

calculateConfidence(params) ==
  Min(100,
      (IF params.biasFromDailyAndHour THEN 20 ELSE 10)
      + Min(20, params.sweep.score * 2)
      + Min(20, params.displacementScore * 2)
      + (IF params.fvg.quality = "HIGH" THEN 15
         ELSE IF params.fvg.quality = "MEDIUM" THEN 10 ELSE 5)
      + (IF params.inOTE THEN 15 ELSE IF params.inCorrectZone THEN 10 ELSE 0)
      + (IF RRAtLeast(params.reward, params.risk, 3) THEN 10
         ELSE IF RRAtLeast(params.reward, params.risk, 2) THEN 5 ELSE 0))

detectSignal(ctx) ==
  LET direction == IF ctx.bias.bias = "BULLISH" THEN "LONG" ELSE "SHORT"
      fvgType == IF direction = "LONG" THEN "BULLISH" ELSE "BEARISH"
      qualifying == {s \in ctx.recentSweeps : s.score >= minScoreForTrigger}
      has15mSMS == ctx.structureState15m.lastEvent \in {"SMS_BULLISH", "SMS_BEARISH"}
      has5mSMS == ctx.structureState5m.lastEvent \in {"SMS_BULLISH", "SMS_BEARISH"}
      activeOpenFVGs == {f \in ctx.fvgs : f.state \in {"OPEN", "PARTIALLY_FILLED"}}
      entry == findEntryFVG(activeOpenFVGs, fvgType)
      swings == ctx.swings15m \cup ctx.swings5m
      swingHighs == {s \in swings : s.type = "SWING_HIGH"}
      swingLows == {s \in swings : s.type = "SWING_LOW"}
      inCorrectZone ==
        /\ swingHighs # {} /\ swingLows # {}
        /\ LET zone == PremiumDiscountZone(ctx.currentPrice, Latest(swingHighs),
                                           Latest(swingLows))
           IN \/ direction = "LONG" /\ zone = "DISCOUNT"
              \/ direction = "SHORT" /\ zone = "PREMIUM"
      inOTE == inCorrectZone
               /\ isInOTE(ctx.currentPrice, Latest(swingHighs), Latest(swingLows))
  IN IF ctx.bias.bias = "NO_TRADE" THEN NoSignal
     ELSE IF ~ctx.killzone THEN NoSignal
     ELSE IF qualifying = {} THEN NoSignal
     ELSE IF ~has15mSMS /\ ~has5mSMS THEN NoSignal
     ELSE IF entry = {} THEN NoSignal
     ELSE IF ~inCorrectZone THEN NoSignal
     ELSE
       LET entryFVG == CHOOSE f \in entry : TRUE
           entryPrice == entryFVG.ce
           critical == IF ctx.structureState5m.criticalSwing # {}
                         THEN ctx.structureState5m.criticalSwing
                         ELSE ctx.structureState15m.criticalSwing
           slBuffer == MulRatio(entryPrice, 1, 1000)
           stopLoss ==
             IF critical # {}
               THEN LET sw == CHOOSE l \in critical : TRUE
                    IN IF direction = "LONG" THEN sw - slBuffer ELSE sw + slBuffer
               ELSE IF direction = "LONG" THEN entryFVG.bottom - slBuffer
                                          ELSE entryFVG.top + slBuffer
           tp1FVG == findTP1FVG(ctx.fvgs, direction, entryPrice)
           tp1 == IF tp1FVG # {} THEN CHOOSE x \in tp1FVG : TRUE
                  ELSE IF direction = "LONG" THEN MulRatio(entryFVG.top, 101, 100)
                                             ELSE MulRatio(entryFVG.bottom, 99, 100)
           tp2Level == findTP2Level(ctx.liquidityLevels, direction, tp1)
           tp2 == IF tp2Level # {} THEN CHOOSE x \in tp2Level : TRUE
                  ELSE IF direction = "LONG" THEN MulRatio(tp1, 101, 100)
                                             ELSE MulRatio(tp1, 99, 100)
           risk == Abs(entryPrice - stopLoss)
           reward == Abs(tp1 - entryPrice)
           sweep == Latest(qualifying)
           confidence == calculateConfidence(
                           [biasFromDailyAndHour |-> ctx.bias.bothTFAgree,
                            sweep |-> sweep,
                            displacementScore |-> ctx.displacementScore,
                            fvg |-> entryFVG, inOTE |-> inOTE,
                            inCorrectZone |-> inCorrectZone,
                            reward |-> reward, risk |-> risk])
       IN IF hasBlockingLiquidity(ctx.liquidityLevels, direction, entryPrice)
            THEN NoSignal
          ELSE IF ~RRAtLeast(reward, risk, minRR) THEN NoSignal
          ELSE IF confidence < MIN_CONFIDENCE THEN NoSignal
          ELSE [direction |-> direction, sweep |-> sweep, entryFVG |-> entryFVG,
                stopLoss |-> stopLoss, tp1 |-> tp1, tp2 |-> tp2,
                rrRatio |-> [reward |-> reward, risk |-> risk],
                displacementScore |-> ctx.displacementScore,
                confidence |-> confidence]

SdBiases == {[bias |-> b, bothTFAgree |-> a] :
               b \in {"BULLISH", "BEARISH", "NO_TRADE"}, a \in BOOLEAN}

SdSweep(score, ts) == [score |-> score, timestamp |-> ts]
SdSweeps == { {}, {SdSweep(4, 1)}, {SdSweep(5, 1), SdSweep(4, 2)} }

\* last event of the 5m and of the 15m structure, and the 5m critical swing
SdStructures ==
  { [e5 |-> e[1], e15 |-> e[2], critical |-> c] :
      e \in { <<"NONE", "NONE">>, <<"SMS_BULLISH", "NONE">>, <<"CHOCH_BULLISH", "NONE">>,
              <<"NONE", "SMS_BEARISH">>, <<"CHOCH_BEARISH", "CHOCH_BULLISH">> },
      c \in { {}, {3990000} } }

SdGap(type, state, quality) ==
  [type |-> type, state |-> state, quality |-> quality,
   bottom |-> 3980000, top |-> 4020000, ce |-> 4000000, timestamp |-> 1]

\* a younger bearish gap just above the entry gap
SdGapAbove ==
  [type |-> "BEARISH", state |-> "OPEN", quality |-> "HIGH",
   bottom |-> 4025000, top |-> 4035000, ce |-> 4030000, timestamp |-> 2]

SdGaps ==
  { {},
    {SdGap("BULLISH", "OPEN", "HIGH")},
    {SdGap("BULLISH", "PARTIALLY_FILLED", "MEDIUM")},
    {SdGap("BULLISH", "OPEN", "LOW")},
    {SdGap("BULLISH", "FILLED", "HIGH")},
    {SdGap("BEARISH", "OPEN", "HIGH")},
    {SdGap("BULLISH", "OPEN", "MEDIUM"), SdGapAbove} }

SdLevel(type, state, score, level) ==
  [type |-> type, state |-> state, score |-> score, level |-> level]

SdLevels ==
  { {},
    {SdLevel("SSL", "ACTIVE", 8, 3990000)},
    {SdLevel("SSL", "SWEPT", 8, 3990000)},
    {SdLevel("SSL", "ACTIVE", 4, 3990000)},
    {SdLevel("SSL", "ACTIVE", 8, 3930000)},
    {SdLevel("PWL", "ACTIVE", 8, 3990000)},
    {SdLevel("BSL", "ACTIVE", 8, 4010000)},
    {SdLevel("BSL", "ACTIVE", 8, 4090000)} }

SdSwing(type, level, ts) == [type |-> type, level |-> level, timestamp |-> ts]

\* the swing caches and the price: no swings yet, or a 3,900,000..4,100,000 range
SdZones ==
  { [swings15m |-> {}, swings5m |-> {}, price |-> 3950000] }
  \cup { [swings15m |-> {SdSwing("SWING_LOW", 3900000, 1)},
          swings5m |-> {SdSwing("SWING_HIGH", 4100000, 2)},
          price |-> p] : p \in {3950000, 3990000, 4050000} }

SdDisplacements == {0, 6}

SdContexts ==
  { [set |-> TRUE, bias |-> b, killzone |-> k, recentSweeps |-> sw, fvgs |-> g,
     liquidityLevels |-> lv,
     structureState15m |-> [lastEvent |-> st.e15, criticalSwing |-> {}],
     structureState5m |-> [lastEvent |-> st.e5, criticalSwing |-> st.critical],
     currentPrice |-> z.price, swings5m |-> z.swings5m, swings15m |-> z.swings15m,
     displacementScore |-> d] :
      b \in SdBiases, k \in BOOLEAN, sw \in SdSweeps, g \in SdGaps, lv \in SdLevels,
      st \in SdStructures, z \in SdZones, d \in SdDisplacements }

SignalInit ==
  /\ openPositions = <<>>
  /\ tradeHistory = <<>>
  /\ riskState = InitRiskState
  /\ accountBalance = PAPER_BALANCE
  /\ manualKillSwitch = FALSE
  /\ lastPrice = StartPrice
  /\ nextId = 0
  /\ recorded = <<>>
  /\ tradeLog = <<>>
  /\ delivered = <<>>
  /\ openedToday = 0
  /\ exitTrace = <<>>
  /\ pc = "idle"
  /\ cpArgs = NoArgs
  /\ pendingSignal = NoSignal
  /\ execResult = "NONE"
  /\ shutdown = "running"
  /\ rcResult = [called |-> FALSE]
  /\ riskOps = 0
  /\ xIn = [set |-> FALSE]
  /\ xOut = [done |-> FALSE]
  /\ market15m = NoMarket
  /\ cycles = <<>>
  /\ swingCache = [tf \in Timeframes |-> [len |-> 0, formed |-> 0]]
  /\ lastSMSEvent = [tf \in Timeframes |-> NoSMSRecord]
  /\ letThrough = {}
  /\ dbCall = [called |-> FALSE]
  /\ sdIn \in SdContexts
  /\ sdOut = [done |-> FALSE]
  /\ AnalyzerIdle("none")

SignalDetect ==
  /\ ~sdOut.done
  /\ sdOut' = [done |-> TRUE, signal |-> detectSignal(sdIn)]
  /\ UNCHANGED <<paperVars, ledgerVars, riskState, accountBalance, manualKillSwitch,
                 lastPrice, nextId, cycleVars, shutdown, riskHarness, exitHarness,
                 market15m, cycles, debounceVars, sdIn,
                 analyzerHarness>>

SignalNext == SignalDetect

SpecSignal == SignalInit /\ [][SignalNext]_vars

\* ------------------------- SpecFVG: the gap pool over the analysis cycles

MaxFvgCandles == 7

\* 24 hours, in 5-minute candles
FVG_MAX_AGE == 288

Candle(ts, high, low, close) ==
  [timestamp |-> ts, high |-> high, low |-> low, close |-> close]

\* the three newest candles at startup: a bullish gap 3,980,000..4,020,000
StartCandles ==
  << Candle(1, 3980000, 3960000, 3975000),
     Candle(2, 4030000, 3975000, 4028000),
     Candle(3, 4045000, 4020000, 4040000) >>

\* high, low, close of a candle that closes later: above the gap, a wick into it,
\* a wick to its midpoint, a wick through it, a close below it
CandleShapes ==
  { <<4045000, 4025000, 4040000>>,
    <<4040000, 4010000, 4030000>>,
    <<4040000, 3995000, 4025000>>,
    <<4030000, 3970000, 3990000>>,
    <<4030000, 3960000, 3970000>> }

Gap(curr, timeframe, type, bottom, top) ==
  [id |-> <<curr.timestamp, timeframe, type, bottom, top>>,
   timestamp |-> curr.timestamp, timeframe |-> timeframe, type |-> type,
   top |-> top, bottom |-> bottom, ce |-> (top + bottom) \div 2, state |-> "OPEN"]

\* the gaps of the 3-candle windows whose middle candle is at i or later
RECURSIVE DetectFrom(_, _, _)
DetectFrom(candles, timeframe, i) ==
  IF i > Len(candles) - 1 THEN <<>>
  ELSE LET prev == candles[i - 1]
           curr == candles[i]
           next == candles[i + 1]
           bull == IF next.low > prev.high
                     THEN <<Gap(curr, timeframe, "BULLISH", prev.high, next.low)>>
                     ELSE <<>>
           bear == IF next.high < prev.low
                     THEN <<Gap(curr, timeframe, "BEARISH", next.high, prev.low)>>
                     ELSE <<>>
       IN bull \o bear \o DetectFrom(candles, timeframe, i + 1)

detectFVGs(candles, timeframe) ==
  IF Len(candles) < 3 THEN <<>> ELSE DetectFrom(candles, timeframe, 2)

\* faulty variant: every candle is judged as if the gap were still OPEN
FvgStepFromOpen(fvg, state, candle) ==
  IF fvg.type = "BULLISH"
    THEN IF candle.close < fvg.bottom THEN "VIOLATED"
         ELSE IF candle.low < fvg.top THEN "PARTIALLY_FILLED" ELSE "OPEN"
    ELSE IF candle.close > fvg.top THEN "VIOLATED"
         ELSE IF candle.high > fvg.bottom THEN "PARTIALLY_FILLED" ELSE "OPEN"

\* one pass of the loop body of updateFVGStates
FvgStep(fvg, state, candle) ==
  IF state = "VIOLATED" THEN state
  ELSE IF fvg.type = "BULLISH"
    THEN IF candle.close < fvg.bottom THEN "VIOLATED"
         ELSE IF state = "PARTIALLY_FILLED" /\ candle.low <= fvg.ce THEN "CE_TOUCHED"
         ELSE IF state = "OPEN" /\ candle.low < fvg.top THEN "PARTIALLY_FILLED"
         ELSE state
    ELSE IF candle.close > fvg.top THEN "VIOLATED"
         ELSE IF state = "PARTIALLY_FILLED" /\ candle.high >= fvg.ce THEN "CE_TOUCHED"
         ELSE IF state = "OPEN" /\ candle.high > fvg.bottom THEN "PARTIALLY_FILLED"
         ELSE state

RECURSIVE FvgLoop(_, _, _, _)
FvgLoop(fvg, state, candles, k) ==
  IF k > Len(candles) THEN state
  ELSE FvgLoop(fvg, FvgStep(fvg, state, candles[k]), candles, k + 1)

updateFVGStates(fvgs, recentCandles) ==
  IF Len(recentCandles) = 0 THEN fvgs
  ELSE [i \in 1..Len(fvgs) |->
          IF fvgs[i].state \in {"FILLED", "VIOLATED"} THEN fvgs[i]
          ELSE [fvgs[i] EXCEPT !.state = FvgLoop(fvgs[i], fvgs[i].state, recentCandles, 1)]]

\* Array.slice(-n)
SliceLast(seq, n) ==
  IF Len(seq) <= n THEN seq ELSE SubSeq(seq, Len(seq) - n + 1, Len(seq))

\* the incoming gaps whose id the map does not hold yet, in order
RECURSIVE MergeNew(_, _, _)
MergeNew(acc, incoming, k) ==
  IF k > Len(incoming) THEN acc
  ELSE IF \E j \in 1..Len(acc) : acc[j].id = incoming[k].id
    THEN MergeNew(acc, incoming, k + 1)
    ELSE MergeNew(Append(acc, incoming[k]), incoming, k + 1)

mergeFVGs(existing, incoming, now) ==
  LET all == MergeNew(existing, incoming, 1)
      keep(f) == f.state # "FILLED" /\ f.state # "VIOLATED"
                 /\ f.timestamp > now - FVG_MAX_AGE
  IN SelectSeq(all, keep)

FvgInit ==
  /\ CoreInit
  /\ AnalyzerIdle("fvg")
  /\ fvgCandles = StartCandles
  /\ activeFVGs = <<>>
  /\ fvgCall = [called |-> FALSE]
  /\ retiredFVGs = {}

\* runTimeframeUpdate('5m'): one more closed candle is merged into the cache
FvgCandleClose(shape) ==
  /\ Len(fvgCandles) < MaxFvgCandles
  /\ fvgCandles' = Append(fvgCandles,
                          Candle(Len(fvgCandles) + 1, shape[1], shape[2], shape[3]))
  /\ UNCHANGED <<activeFVGs, fvgCall, retiredFVGs>>
  /\ UNCHANGED <<paperVars, ledgerVars, riskState, accountBalance, manualKillSwitch,
                 lastPrice, nextId, cycleVars, shutdown, riskHarness, exitHarness,
                 market15m, cycles, debounceVars, signalHarness, fvgRest>>

\* runAnalysisCycle as far as the gap pool goes.  full: the killzone is active, the
\* caches are backfilled and no kill switch is on, so the cycle goes on to merge
\* the detected gaps; the 15m candles of the model form no gap.
FvgAnalysis(full) ==
  LET recent == SliceLast(fvgCandles, 5)
      updating == Len(activeFVGs) > 0 /\ Len(fvgCandles) > 0
      updated == IF updating THEN updateFVGStates(activeFVGs, recent) ELSE activeFVGs
      now == fvgCandles[Len(fvgCandles)].timestamp + 1
  IN /\ fvgCall' = IF updating
                     THEN [called |-> TRUE, before |-> activeFVGs, candles |-> recent,
                           after |-> updated]
                     ELSE [called |-> FALSE]
     /\ activeFVGs' = IF full THEN mergeFVGs(updated, detectFVGs(fvgCandles, "5m"), now)
                              ELSE updated
     /\ retiredFVGs' =
          IF full
            THEN retiredFVGs \cup {updated[i].id : i \in {j \in 1..Len(updated) :
                                       updated[j].state \in {"FILLED", "VIOLATED"}}}
            ELSE retiredFVGs
     /\ UNCHANGED fvgCandles
     /\ UNCHANGED <<paperVars, ledgerVars, riskState, accountBalance, manualKillSwitch,
                    lastPrice, nextId, cycleVars, shutdown, riskHarness, exitHarness,
                    market15m, cycles, debounceVars, signalHarness, fvgRest>>

FvgNext ==
  \/ \E shape \in CandleShapes : FvgCandleClose(shape)
  \/ \E full \in BOOLEAN : FvgAnalysis(full)

SpecFVG == FvgInit /\ [][FvgNext]_vars

\* ------------------- SpecLiquidity: the liquidity map over the analysis cycles

MaxLiqCandles == 12

\* 20 days and 3 days, in 5-minute candles
EXPIRY_DAYS == 5760
cleanHighAge == 864

\* |a - b| / b <= 0.0005
DEDUP_TOLERANCE(a, b) == Abs(a - b) * 2000 <= b

computeScore(swingCount, timeframe, isEQ, age, isSessionLevel) ==
  Min(11, Min(3, swingCount)
          + (CASE timeframe = "1d" -> 3 [] timeframe = "4h" -> 2
               [] timeframe = "1h" -> 1 [] OTHER -> 0)
          + (IF isEQ THEN 2 ELSE 0)
          + (IF age > cleanHighAge THEN 1 ELSE 0)
          + (IF isSessionLevel THEN 1 ELSE 0))

buildSwingLevels(swings, timeframe, now) ==
  [i \in 1..Len(swings) |->
     [timestamp |-> swings[i].timestamp, level |-> swings[i].level,
      type |-> IF swings[i].type = "SWING_HIGH" THEN "BSL" ELSE "SSL",
      score |-> computeScore(1, timeframe, FALSE, now - swings[i].timestamp, FALSE),
      state |-> "ACTIVE"]]

\* index in result of the first level within the tolerance of level, 0 if none
FindWithin(result, level) ==
  LET hits == {j \in 1..Len(result) : DEDUP_TOLERANCE(result[j].level, level.level)}
  IN IF hits = {} THEN 0 ELSE CHOOSE j \in hits : \A k \in hits : j <= k

RECURSIVE DedupLoop(_, _, _)
DedupLoop(result, levels, k) ==
  IF k > Len(levels) THEN result
  ELSE LET level == levels[k]
           e == FindWithin(result, level)
       IN IF e = 0 THEN DedupLoop(Append(result, level), levels, k + 1)
          ELSE IF level.score > result[e].score
            THEN DedupLoop([result EXCEPT ![e] = level], levels, k + 1)
            ELSE DedupLoop(result, levels, k + 1)

deduplicateLevels(levels) == DedupLoop(<<>>, levels, 1)

\* stable sort, highest score first
RECURSIVE SortByScore(_)
SortByScore(levels) ==
  IF levels = <<>> THEN <<>>
  ELSE LET best == CHOOSE j \in 1..Len(levels) :
                     /\ \A k \in 1..Len(levels) : levels[k].score <= levels[j].score
                     /\ \A k \in 1..(j - 1) : levels[k].score < levels[j].score
       IN <<levels[best]>> \o SortByScore(RemoveAt(levels, best))

\* the levels of the 5m swings; the other builders have nothing to build from here
mapLiquidityLevels(swings5m, now) ==
  SortByScore(deduplicateLevels(buildSwingLevels(swings5m, "5m", now)))

HIGH_TYPES == {"BSL", "EQH", "PDH", "PWH", "SESSION_HIGH"}

\* index of the first candle younger than the level that trades through it, 0 if none
SweptBy(level, latestCandles) ==
  LET hits == {k \in 1..Len(latestCandles) :
                 /\ latestCandles[k].timestamp > level.timestamp
                 /\ IF level.type \in HIGH_TYPES
                      THEN latestCandles[k].high >= level.level
                      ELSE latestCandles[k].low <= level.level}
  IN IF hits = {} THEN 0 ELSE CHOOSE k \in hits : \A j \in hits : k <= j

updateLiquidityStates(levels, latestCandles, now) ==
  [i \in 1..Len(levels) |->
     IF levels[i].state # "ACTIVE" THEN levels[i]
     ELSE IF now - levels[i].timestamp > EXPIRY_DAYS
       THEN [levels[i] EXCEPT !.state = "EXPIRED"]
     ELSE IF SweptBy(levels[i], latestCandles) # 0
       THEN [levels[i] EXCEPT !.state = "SWEPT"]
     ELSE levels[i]]

\* the 5m swing cache: one swing low at 3,950,000, formed by the candle of time 1
LiqSwings == << [timestamp |-> 1, type |-> "SWING_LOW", level |-> 3950000] >>

\* high and low of a later candle: above the level, or trading through it
LiqShapes == { <<4000000, 3960000>>, <<3990000, 3940000>> }

LiqInit ==
  /\ CoreInit
  /\ AnalyzerIdle("liq")
  /\ liqCandles = << [timestamp |-> 1, high |-> 3990000, low |-> 3950000] >>
  /\ liquidityLevels = <<>>
  /\ liqRetired = {}

\* runTimeframeUpdate('5m'): one more closed candle is merged into the cache
LiqCandleClose(shape) ==
  /\ Len(liqCandles) < MaxLiqCandles
  /\ liqCandles' = Append(liqCandles, [timestamp |-> Len(liqCandles) + 1,
                                      high |-> shape[1], low |-> shape[2]])
  /\ UNCHANGED <<liquidityLevels, liqRetired>>
  /\ UNCHANGED <<paperVars, ledgerVars, riskState, accountBalance, manualKillSwitch,
                 lastPrice, nextId, cycleVars, shutdown, riskHarness, exitHarness,
                 market15m, cycles, debounceVars, signalHarness, liqRest>>

\* runAnalysisCycle, step 1, in a cycle that gets that far: the map is rebuilt
\* from the swing cache and updated over the last ten candles
LiqAnalysis ==
  LET now == liqCandles[Len(liqCandles)].timestamp + 1
      mapped == mapLiquidityLevels(LiqSwings, now)
      updated == updateLiquidityStates(mapped, SliceLast(liqCandles, 10), now)
  IN /\ liquidityLevels' = updated
     /\ liqRetired' = liqRetired \cup
          { <<updated[i].type, updated[i].level>> :
              i \in {j \in 1..Len(updated) : updated[j].state \in {"SWEPT", "EXPIRED"}} }
     /\ UNCHANGED liqCandles
     /\ UNCHANGED <<paperVars, ledgerVars, riskState, accountBalance, manualKillSwitch,
                    lastPrice, nextId, cycleVars, shutdown, riskHarness, exitHarness,
                    market15m, cycles, debounceVars, signalHarness, liqRest>>

LiqNext ==
  \/ \E shape \in LiqShapes : LiqCandleClose(shape)
  \/ LiqAnalysis

SpecLiquidity == LiqInit /\ [][LiqNext]_vars

\* ------------------------------ SpecCaches: the in-memory caches and their caps

MaxClock == 412
MaxSweeps == 12

CANDLE_CACHE_SIZE == 500
SWEEP_CACHE_SIZE == 10
BACKFILL == 200
FETCH_LIMIT == 10
DEFAULT_N == 3

\* CHOPPY: every fourth candle tops its neighbours and every fourth bottoms them;
\* CALM: every eighth
MarketKinds == {"CHOPPY", "CALM"}

CandleHigh(kind, ts) ==
  IF ts % (IF kind = "CHOPPY" THEN 4 ELSE 8) = 0 THEN 4010000 ELSE 4005000

CandleLow(kind, ts) ==
  IF ts % (IF kind = "CHOPPY" THEN 4 ELSE 8) = 2 THEN 3990000 ELSE 3995000

isSwingHigh(kind, candles, i, n) ==
  \A offset \in 1..n :
    /\ CandleHigh(kind, candles[i - offset]) < CandleHigh(kind, candles[i])
    /\ CandleHigh(kind, candles[i + offset]) < CandleHigh(kind, candles[i])

isSwingLow(kind, candles, i, n) ==
  \A offset \in 1..n :
    /\ CandleLow(kind, candles[i - offset]) > CandleLow(kind, candles[i])
    /\ CandleLow(kind, candles[i + offset]) > CandleLow(kind, candles[i])

SwingKey(ts, type) == [timestamp |-> ts, type |-> type]

\* the loop of detectSwings: centre i runs from n to length - n - 1 (counted
\* from 0), and at each centre the high is pushed before the low
SwingsFrom(kind, candles, n) ==
  LET centres == Len(candles) - 2 * n
      slot(p) == [i |-> n + (p + 1) \div 2, high |-> p % 2 = 1]
      found(p) == IF slot(p).high THEN isSwingHigh(kind, candles, slot(p).i, n)
                                  ELSE isSwingLow(kind, candles, slot(p).i, n)
      hits == SelectSeq([p \in 1..(2 * centres) |-> p], found)
  IN [j \in 1..Len(hits) |->
        SwingKey(candles[slot(hits[j]).i],
                 IF slot(hits[j]).high THEN "SWING_HIGH" ELSE "SWING_LOW")]

detectSwings(kind, candles) ==
  IF Len(candles) < 2 * DEFAULT_N + 1 THEN <<>>
  ELSE SwingsFrom(kind, candles, DEFAULT_N)

detectNewSwings(kind, candles, existingSwings) ==
  LET existingKeys == {existingSwings[j] : j \in 1..Len(existingSwings)}
      isNew(s) == s \notin existingKeys
  IN SelectSeq(detectSwings(kind, candles), isNew)

\* the candle times lo..hi in ascending order
TimesFrom(lo, hi) == [i \in 1..(IF hi < lo THEN 0 ELSE hi - lo + 1) |-> lo + i - 1]

\* one candle per time, ascending, the newest maxSize kept; both arguments
\* arrive in ascending order (collectTimeframe sorts what it fetched, and the
\* cache is only ever written from a merge), so the ends of the merged range
\* are among their ends
mergeCandles(existing, incoming, maxSize) ==
  LET ends == {existing[j] : j \in {1, Len(existing)} \cap DOMAIN existing}
                \cup {incoming[j] : j \in {1, Len(incoming)} \cap DOMAIN incoming}
      lo == CHOOSE t \in ends : \A u \in ends : t <= u
      hi == CHOOSE t \in ends : \A u \in ends : t >= u
      keys == {existing[j] : j \in 1..Len(existing)}
                \cup {incoming[j] : j \in 1..Len(incoming)}
      held(t) == t \in keys
  IN IF ends = {} THEN <<>>
     ELSE SliceLast(SelectSeq(TimesFrom(lo, hi), held), maxSize)

\* startup: the backfill of 200 candles and the first swing detection
CacheInit ==
  /\ CoreInit
  /\ AnalyzerIdle("cache")
  /\ marketKind \in MarketKinds
  /\ clock5m = BACKFILL
  /\ candleCache5m = TimesFrom(1, BACKFILL)
  /\ swingCache5m = SliceLast(detectSwings(marketKind, TimesFrom(1, BACKFILL)),
                              SWING_CACHE_SIZE)
  /\ swingReports = detectSwings(marketKind, TimesFrom(1, BACKFILL))
  /\ recentSweeps = <<>>
  /\ sweepCount = 0

\* runTimeframeUpdate(tf, runSwings) after n more candles of the timeframe have
\* closed at the exchange
runTimeframeUpdate(n, runSwings) ==
  LET now == clock5m + n
      newCandles == TimesFrom(now - FETCH_LIMIT + 1, now)
      merged == mergeCandles(candleCache5m, newCandles, CANDLE_CACHE_SIZE)
      newSwings == IF runSwings /\ Len(merged) >= 7
                     THEN detectNewSwings(marketKind, merged, swingCache5m)
                     ELSE <<>>
  IN /\ now <= MaxClock
     /\ clock5m' = now
     /\ candleCache5m' = merged
     /\ swingCache5m' = IF Len(newSwings) > 0
                          THEN SliceLast(swingCache5m \o newSwings, SWING_CACHE_SIZE)
                          ELSE swingCache5m
     /\ swingReports' = swingReports \o newSwings
     /\ UNCHANGED <<marketKind, recentSweeps, sweepCount>>
     /\ UNCHANGED <<paperVars, ledgerVars, riskState, accountBalance, manualKillSwitch,
                    lastPrice, nextId, cycleVars, shutdown, riskHarness, exitHarness,
                    market15m, cycles, debounceVars, signalHarness, cacheRest>>

\* runTimeframeUpdate('5m')
CacheTimeframeUpdate(n) == runTimeframeUpdate(n, TRUE)

\* runAnalysisCycle, step 2: scanForSweeps returned k sweeps
CacheSweeps(k) ==
  /\ sweepCount + k <= MaxSweeps
  /\ sweepCount' = sweepCount + k
  /\ recentSweeps' = IF k > 0
                       THEN SliceLast(recentSweeps, SWEEP_CACHE_SIZE)
                            \o [i \in 1..k |-> sweepCount + i]
                       ELSE recentSweeps
  /\ UNCHANGED <<marketKind, clock5m, candleCache5m, swingCache5m, swingReports>>
  /\ UNCHANGED <<paperVars, ledgerVars, riskState, accountBalance, manualKillSwitch,
                 lastPrice, nextId, cycleVars, shutdown, riskHarness, exitHarness,
                 market15m, cycles, debounceVars, signalHarness, cacheRest>>

CacheNext ==
  \/ \E n \in {1, 5, 10} : CacheTimeframeUpdate(n)
  \/ \E k \in {1, 2} : CacheSweeps(k)

SpecCaches == CacheInit /\ [][CacheNext]_vars

\* ------------------------------------ SpecSMS: detectSMS on candles and swings

minScoreForSMS == 6
atrPeriod == 14
volumeLookback == 20

Bar(open, high, low, close, volume) ==
  [open |-> open, high |-> high, low |-> low, close |-> close, volume |-> volume]

Max2(a, b) == IF a >= b THEN a ELSE b
Min2(a, b) == IF a <= b THEN a ELSE b

\* indices are the source's, counted from 0
At(seq, i) == seq[i + 1]

\* slice(from, to): the elements from..to-1
Slice(seq, from, to) == SubSeq(seq, from + 1, Min2(to, Len(seq)))

RECURSIVE SumOver(_, _, _)
SumOver(f(_), lo, hi) == IF lo > hi THEN 0 ELSE f(lo) + SumOver(f, lo + 1, hi)

\* the average true range as the fraction sum / limit
calculateATR(candles, period) ==
  IF Len(candles) < 2 THEN [sum |-> 0, limit |-> 1]
  ELSE LET limit == Min2(Len(candles) - 1, period)
           trueRange(i) ==
             Max2(At(candles, i).high - At(candles, i).low,
                  Max2(Abs(At(candles, i).high - At(candles, i - 1).close),
                       Abs(At(candles, i).low - At(candles, i - 1).close)))
       IN [sum |-> SumOver(trueRange, Len(candles) - limit, Len(candles) - 1),
           limit |-> limit]

\* the number of gaps detectFVGsInRange returns
detectFVGsInRange(candles, fromIndex, toIndex) ==
  LET start == Max2(fromIndex, 1)
      end == Min2(toIndex, Len(candles) - 2)
      gaps(i) ==
        (IF At(candles, i + 1).low > At(candles, i - 1).high THEN 1 ELSE 0)
        + (IF At(candles, i + 1).high < At(candles, i - 1).low THEN 1 ELSE 0)
  IN SumOver(gaps, start, end)

\* the body of a candle in thousandths of its range
BodyRatio(c) ==
  IF c.high - c.low > 0 THEN (1000 * Abs(c.close - c.open)) \div (c.high - c.low) ELSE 0

scoreDisplacement(candles, fromIndex, toIndex) ==
  IF fromIndex < 0 \/ toIndex >= Len(candles) \/ fromIndex > toIndex
    THEN [score |-> 0, direction |-> "BULLISH"]
  ELSE
    LET dispCandles == Slice(candles, fromIndex, toIndex + 1)
        n == Len(dispCandles)
        atr == calculateATR(Slice(candles, 0, Min2(fromIndex + 1, Len(candles))), atrPeriod)
        high(i) == dispCandles[i].high
        low(i) == dispCandles[i].low
        highestHigh == CHOOSE h \in {high(i) : i \in 1..n} : \A i \in 1..n : high(i) <= h
        lowestLow == CHOOSE l \in {low(i) : i \in 1..n} : \A i \in 1..n : low(i) >= l
        totalRange == highestHigh - lowestLow
        direction == IF dispCandles[n].close >= dispCandles[1].close
                       THEN "BULLISH" ELSE "BEARISH"
        \* totalRange / (sum / limit) against 2.0, 1.5 and 1.0
        atrScore == IF atr.sum <= 0 THEN 0
                    ELSE IF totalRange * atr.limit >= 2 * atr.sum THEN 3
                    ELSE IF 2 * totalRange * atr.limit >= 3 * atr.sum THEN 2
                    ELSE IF totalRange * atr.limit >= atr.sum THEN 1
                    ELSE 0
        volStart == Max2(0, fromIndex - volumeLookback)
        lookbackCandles == Slice(candles, volStart, fromIndex)
        lookVolume(i) == lookbackCandles[i].volume
        dispVolume(i) == dispCandles[i].volume
        lookSum == SumOver(lookVolume, 1, Len(lookbackCandles))
        dispSum == SumOver(dispVolume, 1, n)
        \* (dispSum / n) / (lookSum / lookback length) against 3.0 and 2.0
        volumeScore == IF Len(lookbackCandles) = 0 \/ lookSum <= 0 THEN 0
                       ELSE IF dispSum * Len(lookbackCandles) >= 3 * lookSum * n THEN 2
                       ELSE IF dispSum * Len(lookbackCandles) >= 2 * lookSum * n THEN 1
                       ELSE 0
        body(i) == BodyRatio(dispCandles[i])
        bodySum == SumOver(body, 1, n)
        bodyScore == IF bodySum >= 700 * n THEN 2
                     ELSE IF bodySum >= 500 * n THEN 1
                     ELSE 0
        fvgCount == detectFVGsInRange(candles, fromIndex, toIndex)
        fvgScore == IF fvgCount >= 3 THEN 3 ELSE fvgCount
    IN [score |-> Min2(10, atrScore + volumeScore + bodyScore + fvgScore),
        direction |-> direction]

NoSwing == [set |-> FALSE]
SomeSwing(s) == [set |-> TRUE, level |-> s.level]

\* insertion by time, equal times keeping their order
RECURSIVE SortByTime(_)
SortByTime(swings) ==
  IF Len(swings) <= 1 THEN swings
  ELSE LET rest == SortByTime(Tail(swings))
           first == Head(swings)
           before(s) == s.timestamp < first.timestamp
           after(s) == s.timestamp >= first.timestamp
       IN SelectSeq(rest, before) \o <<first>> \o SelectSeq(rest, after)

\* the last swing of the list that is higher than the one before it (up), or
\* the last that is not (~up)
LastStep(list, up) ==
  LET hits == {i \in 2..Len(list) : (list[i].level > list[i - 1].level) = up}
  IN IF hits = {} THEN NoSwing
     ELSE SomeSwing(list[CHOOSE i \in hits : \A j \in hits : j <= i])

\* analyzeStructure(_candles, swings), with every field of the state
analyzeStructureState(swings) ==
  LET sorted == SortByTime(swings)
      isHigh(s) == s.type = "SWING_HIGH"
      isLow(s) == s.type = "SWING_LOW"
      highs == SelectSeq(sorted, isHigh)
      lows == SelectSeq(sorted, isLow)
      lastHH == LastStep(highs, TRUE)
      lastLH == LastStep(highs, FALSE)
      lastHL == LastStep(lows, TRUE)
      lastLL == LastStep(lows, FALSE)
      isHH == highs[Len(highs)].level > highs[Len(highs) - 1].level
      isHL == lows[Len(lows)].level > lows[Len(lows) - 1].level
      trend == IF isHH /\ isHL THEN "BULLISH"
               ELSE IF ~isHH /\ ~isHL THEN "BEARISH"
               ELSE "TRANSITION"
  IN IF Len(highs) < 2 \/ Len(lows) < 2
       THEN [trend |-> "UNDEFINED", lastHH |-> NoSwing, lastHL |-> NoSwing,
             lastLH |-> NoSwing, lastLL |-> NoSwing, criticalSwing |-> NoSwing,
             lastEvent |-> "NONE"]
       ELSE [trend |-> trend, lastHH |-> lastHH, lastHL |-> lastHL,
             lastLH |-> lastLH, lastLL |-> lastLL,
             criticalSwing |-> IF trend = "BULLISH" THEN lastHL
                               ELSE IF trend = "BEARISH" THEN lastLH
                               ELSE NoSwing,
             lastEvent |-> "NONE"]

detectBMS(candle, state) ==
  IF state.trend \in {"UNDEFINED", "TRANSITION"} THEN "NONE"
  ELSE IF state.trend = "BULLISH"
    THEN IF state.criticalSwing.set /\ candle.close < state.criticalSwing.level
           THEN "CHOCH_BEARISH"
         ELSE IF state.lastHH.set /\ candle.close > state.lastHH.level
           THEN "BMS_BULLISH"
         ELSE "NONE"
  ELSE IF state.criticalSwing.set /\ candle.close > state.criticalSwing.level
         THEN "CHOCH_BULLISH"
       ELSE IF state.lastLL.set /\ candle.close < state.lastLL.level
         THEN "BMS_BEARISH"
       ELSE "NONE"

\* faulty variant: every CHOCH is upgraded, whatever its displacement
detectSMSUnscored(timeframe, candles, swings) ==
  IF Len(candles) < 5 THEN "NONE"
  ELSE LET event == detectBMS(candles[Len(candles)], analyzeStructureState(swings))
       IN IF event = "CHOCH_BULLISH" THEN "SMS_BULLISH"
          ELSE IF event = "CHOCH_BEARISH" THEN "SMS_BEARISH"
          ELSE event

detectSMS(timeframe, candles, swings) ==
  IF Len(candles) < 5 THEN "NONE"
  ELSE
    LET state == analyzeStructureState(swings)
        event == detectBMS(candles[Len(candles)], state)
        dispStart == Max2(0, Len(candles) - 11)
        dispResult == scoreDisplacement(candles, dispStart, Len(candles) - 1)
    IN IF state.trend \in {"UNDEFINED", "TRANSITION"} THEN "NONE"
       ELSE IF event \notin {"CHOCH_BULLISH", "CHOCH_BEARISH"} THEN event
       ELSE IF dispResult.score >= minScoreForSMS
         THEN (IF event = "CHOCH_BULLISH" THEN "SMS_BULLISH" ELSE "SMS_BEARISH")
       ELSE event

SmsSwing(ts, type, level) == [timestamp |-> ts, type |-> type, level |-> level]

\* swing caches: rising, falling, mixed, and one with too few swings
SmsSwingSets ==
  { <<SmsSwing(1, "SWING_HIGH", 4000000), SmsSwing(2, "SWING_LOW", 3990000),
      SmsSwing(3, "SWING_HIGH", 4010000), SmsSwing(4, "SWING_LOW", 3995000)>>,
    <<SmsSwing(1, "SWING_HIGH", 4010000), SmsSwing(2, "SWING_LOW", 3990000),
      SmsSwing(3, "SWING_HIGH", 4005000), SmsSwing(4, "SWING_LOW", 3980000)>>,
    <<SmsSwing(3, "SWING_HIGH", 4010000), SmsSwing(1, "SWING_HIGH", 4000000),
      SmsSwing(2, "SWING_LOW", 3990000), SmsSwing(4, "SWING_LOW", 3980000)>>,
    <<SmsSwing(1, "SWING_HIGH", 4000000), SmsSwing(2, "SWING_LOW", 3990000)>> }

SmsSteps == {600, 3000}
SmsBodies == {20, 60, 80}
SmsVolumes == {100, 250, 400}
SmsLegs == {2, 5, 11}
SmsDirections == {1, -1}

\* two quiet candles at 4,000,000, then a leg of candles each moving the price
\* by step in the direction dir, the move being bodyPct percent of the candle's
\* range with equal wicks on both sides
SmsCandles(dir, step, bodyPct, volume, leg) ==
  LET range == (step * 100) \div bodyPct
      wick == (range - step) \div 2
      legOpen(k) == 4000000 + dir * step * (k - 1)
      legClose(k) == 4000000 + dir * step * k
      legBar(k) == Bar(legOpen(k),
                       Max2(legOpen(k), legClose(k)) + wick,
                       Min2(legOpen(k), legClose(k)) - wick,
                       legClose(k), volume)
  IN <<Bar(4000000, 4001000, 3999000, 4000000, 100),
       Bar(4000000, 4001000, 3999000, 4000000, 100)>>
     \o [k \in 1..leg |-> legBar(k)]

SmsInputs ==
  { [set |-> TRUE, timeframe |-> "5m",
     candles |-> SmsCandles(d, s, b, v, l), swings |-> sw] :
      d \in SmsDirections, s \in SmsSteps, b \in SmsBodies, v \in SmsVolumes,
      l \in SmsLegs, sw \in SmsSwingSets }

SmsInit ==
  /\ CoreInit
  /\ AnalyzerIdle("fn")
  /\ fnIn \in SmsInputs
  /\ fnOut = [done |-> FALSE]

SmsDetect ==
  /\ ~fnOut.done
  /\ fnOut' = [done |-> TRUE,
               event |-> detectSMS(fnIn.timeframe, fnIn.candles, fnIn.swings)]
  /\ UNCHANGED <<paperVars, ledgerVars, riskState, accountBalance, manualKillSwitch,
                 lastPrice, nextId, cycleVars, shutdown, riskHarness, exitHarness,
                 market15m, cycles, debounceVars, signalHarness, fnIn, fnRest>>

SmsNext == SmsDetect

SpecSMS == SmsInit /\ [][SmsNext]_vars

\* --------------------------------- SpecSweep: scanForSweeps on levels and candles

lookforwardCandles == 5

\* Math.abs(candle.close - candle.open) / range against the fraction num / 10
BodyAtLeast(c, num) ==
  c.high - c.low > 0 /\ 10 * Abs(c.close - c.open) >= num * (c.high - c.low)

computeSweepScore(level, extreme, delay, reversal) ==
  LET pen == Abs(extreme - level.level)
      penetrationScore == IF pen * 1000 < level.level THEN 3
                          ELSE IF pen * 500 < level.level THEN 2
                          ELSE IF pen * 200 < level.level THEN 1
                          ELSE 0
      speedScore == IF delay = 0 THEN 3
                    ELSE IF delay = 1 THEN 2
                    ELSE IF delay <= 3 THEN 1
                    ELSE 0
      dispScore == IF BodyAtLeast(reversal, 6) THEN 2
                   ELSE IF BodyAtLeast(reversal, 4) THEN 1
                   ELSE 0
      qualityScore == IF level.score >= 8 THEN 2
                      ELSE IF level.score >= 5 THEN 1
                      ELSE 0
  IN Min2(10, penetrationScore + speedScore + dispScore + qualityScore)

NoSweep == [found |-> FALSE]

SweepOf(level, candles, at, confirmation, delay, score, extreme) ==
  [found |-> TRUE, timestamp |-> at, liquidityLevel |-> level,
   confirmation |-> confirmation, delay |-> delay, score |-> score, extreme |-> extreme]

ClosedBack(level, c) ==
  IF level.type \in HIGH_TYPES THEN c.close < level.level ELSE c.close > level.level

\* the loop of detectSweep from candle i on (counted from 1)
RECURSIVE SweepLoop(_, _, _)
SweepLoop(level, candles, i) ==
  IF i > Len(candles) THEN NoSweep
  ELSE
    LET candle == candles[i]
        isHighLevel == level.type \in HIGH_TYPES
        levelExceeded == IF isHighLevel THEN candle.high > level.level
                                        ELSE candle.low < level.level
        extreme == IF isHighLevel THEN candle.high ELSE candle.low
        maxDelay == Min2(lookforwardCandles, Len(candles) - i)
        confirms == {d \in 1..maxDelay : ClosedBack(level, candles[i + d])}
        d == CHOOSE x \in confirms : \A y \in confirms : x <= y
    IN IF ~levelExceeded THEN SweepLoop(level, candles, i + 1)
       ELSE IF Abs(extreme - level.level) * 100 > level.level
         THEN SweepLoop(level, candles, i + 1)
       ELSE IF ClosedBack(level, candle)
         THEN IF computeSweepScore(level, extreme, 0, candle) = 0
                THEN SweepLoop(level, candles, i + 1)
                ELSE SweepOf(level, candles, i, "IMMEDIATE", 0,
                             computeSweepScore(level, extreme, 0, candle), extreme)
       ELSE IF confirms = {} THEN SweepLoop(level, candles, i + 1)
       ELSE IF computeSweepScore(level, extreme, d, candles[i + d]) = 0
         THEN SweepLoop(level, candles, i + 1)
       ELSE SweepOf(level, candles, i + d, "DELAYED", d,
                    computeSweepScore(level, extreme, d, candles[i + d]), extreme)

detectSweep(level, candles) ==
  IF level.state # "ACTIVE" THEN NoSweep ELSE SweepLoop(level, candles, 1)

\* faulty variant: every detected sweep is returned, whatever its score
scanForSweepsUnscored(levels, recentCandles) ==
  LET sweepOf == [k \in 1..Len(levels) |-> detectSweep(levels[k], recentCandles)]
      found(s) == s.found
  IN SelectSeq(sweepOf, found)

scanForSweeps(levels, recentCandles) ==
  LET sweepOf == [k \in 1..Len(levels) |-> detectSweep(levels[k], recentCandles)]
      qualifies(s) == s.found /\ s.score >= minScoreForTrigger
  IN SelectSeq(sweepOf, qualifies)

\* the candle seen from the other side of 4,000,000
Mirror(c) == Bar(8000000 - c.open, 8000000 - c.low, 8000000 - c.high,
                 8000000 - c.close, c.volume)

\* candles around a high level at 4,000,000: one below it, a shallow and a
\* farther wick closing back below, a wick of more than 1%, and closes above
SweepShapes ==
  { Bar(3990000, 3995000, 3985000, 3990000, 100),
    Bar(3999000, 4002000, 3990000, 3991000, 100),
    Bar(4020000, 4030000, 3988000, 3990000, 100),
    Bar(3995000, 4050000, 3985000, 3990000, 100),
    Bar(3995000, 4010000, 3994000, 4008000, 100),
    Bar(3999000, 4005000, 3992000, 3998000, 100) }

SweepHold == Bar(4008000, 4012000, 4004000, 4008000, 100)
SweepHolds == 0..5

SweepLevel(side, level, score, state) ==
  [type |-> side, level |-> level, score |-> score, state |-> state]

SweepLevelLists ==
  { <<SweepLevel("BSL", 4000000, sc, st)>> : sc \in {3, 5, 8}, st \in {"ACTIVE", "SWEPT"} }
  \cup { <<SweepLevel("PDH", 4001000, 8, "ACTIVE"), SweepLevel("BSL", 4000000, sc, "ACTIVE")>> :
           sc \in {3, 5, 8} }

SweepInputs ==
  { [set |-> TRUE,
     levels |-> IF side = "HIGH" THEN lv
                ELSE [k \in 1..Len(lv) |->
                        [lv[k] EXCEPT !.type = IF @ = "BSL" THEN "SSL" ELSE "PDL",
                                      !.level = 8000000 - @]],
     candles |-> LET seq == <<first>> \o [k \in 1..hold |-> SweepHold] \o <<last>>
                 IN IF side = "HIGH" THEN seq
                    ELSE [k \in 1..Len(seq) |-> Mirror(seq[k])]] :
      side \in {"HIGH", "LOW"}, lv \in SweepLevelLists,
      first \in SweepShapes, hold \in SweepHolds, last \in SweepShapes }

SweepInit ==
  /\ CoreInit
  /\ AnalyzerIdle("fn")
  /\ fnIn \in SweepInputs
  /\ fnOut = [done |-> FALSE]

SweepScan ==
  /\ ~fnOut.done
  /\ fnOut' = [done |-> TRUE, sweeps |-> scanForSweeps(fnIn.levels, fnIn.candles)]
  /\ UNCHANGED <<paperVars, ledgerVars, riskState, accountBalance, manualKillSwitch,
                 lastPrice, nextId, cycleVars, shutdown, riskHarness, exitHarness,
                 market15m, cycles, debounceVars, signalHarness, fnIn, fnRest>>

SweepNext == SweepScan

SpecSweep == SweepInit /\ [][SweepNext]_vars

\* ------------------- SpecDedup: mapLiquidityLevels on swings of two timeframes

\* Math.abs(other.level - base.level) / base.level <= eqTolerance (0.1%)
EQ_TOLERANCE(other, base) == Abs(other - base) * 1000 <= base

\* the loop of buildEQlevels over one group (the highs or the lows), from base i on
RECURSIVE EqLoop(_, _, _, _, _)
EqLoop(group, timeframe, now, i, used) ==
  IF i > Len(group) THEN <<>>
  ELSE IF i \in used THEN EqLoop(group, timeframe, now, i + 1, used)
  ELSE
    LET base == group[i]
        others == {j \in (i + 1)..Len(group) :
                     j \notin used /\ EQ_TOLERANCE(group[j].level, base.level)}
        cluster == {i} \cup others
        levelOf(j) == IF j \in cluster THEN group[j].level ELSE 0
        avgLevel == SumOver(levelOf, i, Len(group)) \div Cardinality(cluster)
    IN IF Cardinality(cluster) >= 2
         THEN <<[timestamp |-> base.timestamp, level |-> avgLevel,
                 type |-> IF base.type = "SWING_HIGH" THEN "EQH" ELSE "EQL",
                 score |-> computeScore(Cardinality(cluster), timeframe, TRUE,
                                        now - base.timestamp, FALSE),
                 state |-> "ACTIVE"]>>
              \o EqLoop(group, timeframe, now, i + 1, used \cup cluster)
         ELSE EqLoop(group, timeframe, now, i + 1, used)

buildEQlevels(swings, timeframe, now) ==
  LET isHigh(s) == s.type = "SWING_HIGH"
      isLow(s) == s.type = "SWING_LOW"
  IN EqLoop(SelectSeq(swings, isHigh), timeframe, now, 1, {})
     \o EqLoop(SelectSeq(swings, isLow), timeframe, now, 1, {})

swingTimeframes == <<"5m", "15m", "1h", "4h", "1d">>

\* step 1 of mapLiquidityLevels from timeframe number t on
RECURSIVE SwingLevelsFrom(_, _, _)
SwingLevelsFrom(swings, now, t) ==
  IF t > Len(swingTimeframes) THEN <<>>
  ELSE LET tf == swingTimeframes[t]
       IN (IF Len(swings[tf]) > 0
             THEN buildSwingLevels(swings[tf], tf, now) \o buildEQlevels(swings[tf], tf, now)
             ELSE <<>>)
          \o SwingLevelsFrom(swings, now, t + 1)

\* mapLiquidityLevels with swings of every timeframe, no daily candles and no
\* session ranges
mapAllLiquidityLevels(swings, now) ==
  SortByScore(deduplicateLevels(SwingLevelsFrom(swings, now, 1)))

DedupNow == 2000
DedupTimes == {100, 1900}
DedupPrices == {4000000, 4001500, 4003000}
DedupTimeframes == {"5m", "1h"}

DedupSwings ==
  { [timestamp |-> ts, type |-> ty, level |-> p, timeframe |-> tf] :
      ts \in DedupTimes, ty \in {"SWING_HIGH", "SWING_LOW"}, p \in DedupPrices,
      tf \in DedupTimeframes }

\* three swings in the order of their detection, sorted into the caches of
\* their timeframes
DedupInputs ==
  { [set |-> TRUE, now |-> DedupNow,
     swings |-> [tf \in {swingTimeframes[t] : t \in 1..Len(swingTimeframes)} |->
                   LET ofTf(s) == s.timeframe = tf IN SelectSeq(three, ofTf)]] :
      three \in {t \in DedupSwings \X DedupSwings \X DedupSwings :
                   t[1].timestamp <= t[2].timestamp /\ t[2].timestamp <= t[3].timestamp} }

DedupInit ==
  /\ CoreInit
  /\ AnalyzerIdle("fn")
  /\ fnIn \in DedupInputs
  /\ fnOut = [done |-> FALSE]

DedupMap ==
  /\ ~fnOut.done
  /\ fnOut' = [done |-> TRUE,
               built |-> SwingLevelsFrom(fnIn.swings, fnIn.now, 1),
               levels |-> mapAllLiquidityLevels(fnIn.swings, fnIn.now)]
  /\ UNCHANGED <<paperVars, ledgerVars, riskState, accountBalance, manualKillSwitch,
                 lastPrice, nextId, cycleVars, shutdown, riskHarness, exitHarness,
                 market15m, cycles, debounceVars, signalHarness, fnIn, fnRest>>

DedupNext == DedupMap

SpecDedup == DedupInit /\ [][DedupNext]_vars

\* ------------------------ SpecTick: cron callbacks with failing candle fetches

MaxTicks == 3
MAX_RETRIES == 3

\* Math.pow(2, attempt) * 500
RECURSIVE BackoffDelay(_)
BackoffDelay(attempt) == IF attempt = 0 THEN 500 ELSE 2 * BackoffDelay(attempt - 1)

TickOthers == <<paperVars, ledgerVars, riskState, accountBalance, manualKillSwitch,
              lastPrice, nextId, cycleVars, shutdown, riskHarness, exitHarness,
              market15m, cycles, debounceVars, signalHarness, tickRest>>

TickInit ==
  /\ CoreInit
  /\ AnalyzerIdle("tick")
  /\ tkKind = "none"
  /\ tkPhase = "idle"
  /\ tkAttempt = 0
  /\ tkSleeps = <<>>
  /\ tkFailed = FALSE
  /\ tkSteps = {}
  /\ tkLog = <<>>
  /\ tkTicks = 0
  /\ tkAlive = TRUE

\* a cron job fires: its callback calls runTimeframeUpdate, which calls
\* collectTimeframe, which makes the first fetch attempt
TickStart(kind) ==
  /\ tkAlive
  /\ tkPhase = "idle"
  /\ tkTicks < MaxTicks
  /\ tkKind' = kind
  /\ tkPhase' = "fetch"
  /\ tkAttempt' = 1
  /\ tkSleeps' = <<>>
  /\ tkFailed' = FALSE
  /\ tkSteps' = {}
  /\ tkTicks' = tkTicks + 1
  /\ UNCHANGED <<tkLog, tkAlive, TickOthers>>

\* the request answers with retCode 0: the candles are merged and the swings run
TickFetchOk ==
  /\ tkPhase = "fetch"
  /\ tkSteps' = tkSteps \cup {"update"}
  /\ tkPhase' = IF tkKind = "5m" THEN "positions" ELSE "idle"
  /\ UNCHANGED <<tkKind, tkAttempt, tkSleeps, tkFailed, tkLog, tkTicks, tkAlive, TickOthers>>

\* the request times out or answers with an error code: fetchKlinesWithRetry
\* sleeps and tries again, or rethrows on the last attempt into the catch of
\* runTimeframeUpdate, which logs and returns to the callback
TickFetchFail ==
  /\ tkPhase = "fetch"
  /\ IF tkAttempt >= MAX_RETRIES
       THEN /\ tkLog' = Append(tkLog, [tick |-> tkTicks, line |-> "Update failed"])
            /\ tkFailed' = TRUE
            /\ tkPhase' = IF tkKind = "5m" THEN "positions" ELSE "idle"
            /\ UNCHANGED <<tkAttempt, tkSleeps>>
       ELSE /\ tkSleeps' = Append(tkSleeps, BackoffDelay(tkAttempt))
            /\ tkAttempt' = tkAttempt + 1
            /\ UNCHANGED <<tkLog, tkFailed, tkPhase>>
  /\ UNCHANGED <<tkKind, tkSteps, tkTicks, tkAlive, TickOthers>>

\* 5m callback: the last cached close is positive (the startup backfill filled
\* the cache), so checkPositions runs
TickPositions ==
  /\ tkPhase = "positions"
  /\ tkSteps' = tkSteps \cup {"positions"}
  /\ tkPhase' = "analysis"
  /\ UNCHANGED <<tkKind, tkAttempt, tkSleeps, tkFailed, tkLog, tkTicks, tkAlive, TickOthers>>

\* 5m callback: runAnalysisCycle runs; an exception inside it is caught and logged
TickAnalysis(throws) ==
  /\ tkPhase = "analysis"
  /\ tkSteps' = tkSteps \cup {"analysis"}
  /\ tkLog' = IF throws
                THEN Append(tkLog, [tick |-> tkTicks, line |-> "Analysis cycle error"])
                ELSE tkLog
  /\ tkPhase' = "idle"
  /\ UNCHANGED <<tkKind, tkAttempt, tkSleeps, tkFailed, tkTicks, tkAlive, TickOthers>>

TickNext ==
  \/ \E kind \in {"5m", "15m"} : TickStart(kind)
  \/ TickFetchOk
  \/ TickFetchFail
  \/ TickPositions
  \/ \E throws \in BOOLEAN : TickAnalysis(throws)

SpecTick == TickInit /\ [][TickNext]_vars

\* ------------------- SpecSinks: the 5-minute cycle with failing trade sinks

SinkOutages == {{}, {"csv", "supabase"}, {"telegram"}, SINKS}

\* the disk fills up, Supabase or Telegram stops answering, or they recover
SinkOutage(down) ==
  /\ Alive
  /\ sinksDown # down
  /\ sinksDown' = down
  /\ UNCHANGED <<paperVars, ledgerVars, riskState, accountBalance, manualKillSwitch,
                 lastPrice, nextId, cycleVars, shutdown, riskHarness, exitHarness,
                 market15m, cycles, debounceVars, signalHarness, sinkRest>>

SinkNext ==
  \/ Next
  \/ \E down \in SinkOutages : SinkOutage(down)

SpecSinks == Init /\ [][SinkNext]_vars

\* --------------------- SpecKill: the 5-minute cycle with the /kill command

KillNext ==
  \/ Next
  \/ ToggleKill

SpecKill == Init /\ [][KillNext]_vars

\* ------------- SpecDay: the 5-minute cycle over several days, two trades long

MaxDayTrades == 2

DaySignals == {sig \in Signals : sig.direction = "LONG"}

DayStructures == {st \in Structures : st.trend = "UNDEFINED"}

DayNext ==
  \/ \E p \in Prices : PriceUpdate(p)
  \/ \E t \in CheckTimes, st \in DayStructures : CheckPositions(t, st)
  \/ CheckPositionsStep4
  \/ AnalysisNoSignal
  \/ \E sig \in DaySignals : AnalysisSignalUpTo(sig, MaxDayTrades)
  \/ ExecuteSignal
  \/ HourlyEquity
  \/ ResetDaily
  \/ ResetWeekly
  \/ ShutdownSignal
  \/ ProcessExit

SpecDay == Init /\ [][DayNext]_vars

\* ------- SpecScan: steps 1 and 2 of runAnalysisCycle, the map update and the
\* ------- sweep scan, on one level and the 5m candles around it

MaxScanCandles == 12

\* updateLiquidityStates over the last 10 candles, scanForSweeps of the levels
\* still ACTIVE over the last 20, and the recent-sweeps cache after the cycle
scanCycle(levels, candles5m, now, recent) ==
  LET updated == updateLiquidityStates(levels, SliceLast(candles5m, 10), now)
      active == LET isActive(l) == l.state = "ACTIVE" IN SelectSeq(updated, isActive)
      newSweeps == scanForSweeps(active, SliceLast(candles5m, 20))
  IN [levels |-> updated, newSweeps |-> newSweeps,
      recentSweeps |-> IF Len(newSweeps) > 0
                         THEN SliceLast(recent, SWEEP_CACHE_SIZE) \o newSweeps
                         ELSE recent]

\* a quiet candle on the near side of a high level at 4,000,000
ScanQuiet == Bar(3990000, 3995000, 3985000, 3990000, 100)

\* n candles, quiet but for the one at position p; times are the positions
ScanCandles(side, n, p, shape) ==
  [k \in 1..n |->
     LET c == IF k = p THEN shape ELSE ScanQuiet
     IN [timestamp |-> k] @@ (IF side = "HIGH" THEN c ELSE Mirror(c))]

\* the level was created before the candles, or by the candle at position 2
ScanInputs ==
  { [set |-> TRUE,
     levels |-> << [type |-> IF side = "HIGH" THEN "BSL" ELSE "SSL", level |-> 4000000,
                    score |-> sc, state |-> "ACTIVE", timestamp |-> created] >>,
     candles |-> ScanCandles(side, n, p, shape)] :
      side \in {"HIGH", "LOW"}, sc \in {3, 8}, created \in {0, 2},
      n \in {3, MaxScanCandles}, p \in 1..MaxScanCandles, shape \in SweepShapes }

ScanInit ==
  /\ CoreInit
  /\ AnalyzerIdle("fn")
  /\ fnIn \in ScanInputs
  /\ fnOut = [done |-> FALSE]

ScanCycle ==
  /\ ~fnOut.done
  /\ fnOut' = [done |-> TRUE]
                @@ scanCycle(fnIn.levels, fnIn.candles, Len(fnIn.candles) + 1, <<>>)
  /\ UNCHANGED <<paperVars, ledgerVars, riskState, accountBalance, manualKillSwitch,
                 lastPrice, nextId, cycleVars, shutdown, riskHarness, exitHarness,
                 market15m, cycles, debounceVars, signalHarness, fnIn, fnRest>>

ScanNext == ScanCycle

SpecScan == ScanInit /\ [][ScanNext]_vars

\* ----- SpecHigherTF: the 4h (or daily) candle and swing caches, from the
\* ----- startup backfill through the scheduled updates of that timeframe

\* cron '0 */4 * * *' and '5 0 * * *': runTimeframeUpdate('4h', false) and
\* runTimeframeUpdate('1d', false), one candle of the timeframe after the last
ScheduledHigherTFUpdate == runTimeframeUpdate(1, FALSE)

HigherTFNext == ScheduledHigherTFUpdate

SpecHigherTF == CacheInit /\ [][HigherTFNext]_vars

\* ================================================================= claims

Count(seq, x) == Cardinality({i \in 1..Len(seq) : seq[i] = x})
Ids(positions) == {positions[i].trade.id : i \in 1..Len(positions)}
NewlyClosed == (Len(tradeHistory) + 1)..Len(tradeHistory')

\* C1: executeSignal refuses a new signal (returns null, opens nothing) whenever
\* a position, pending or filled, is already open; so at most one position is
\* open at any time.
C1_Refusal ==
  (pc = "signal" /\ pc' = "idle" /\ Len(openPositions) > 0)
    => (openPositions' = openPositions /\ nextId' = nextId /\ execResult' = "SKIPPED")

C1_SinglePosition ==
  /\ [](Len(openPositions) <= 1)
  /\ [][C1_Refusal]_vars

\* a signal was refused while a filled position was open
C1_Witness ==
  /\ execResult = "SKIPPED"
  /\ Len(openPositions) = 1
  /\ openPositions[1].entryFilled

\* C2: whenever the drawdown from peak equity is at least 15%, isKillSwitchActive
\* is true and checkRiskAllowance rejects the signal, whatever its R:R, the
\* trades-today count and the daily and weekly PnL.
C2_KillSwitchBlocks ==
  (rcResult.called
     /\ (riskState.peakEquity - riskState.currentEquity) * 100 >= 15 * riskState.peakEquity)
    => (rcResult.killSwitch /\ ~rcResult.out.allowed)

\* peak 10000, current 8500, every other gate passing, and the signal is blocked
C2_Witness ==
  /\ rcResult.called
  /\ riskState.peakEquity = 10000 /\ riskState.currentEquity = 8500
  /\ riskState.tradesToday = 0 /\ riskState.dailyPnlUsdt = 0
  /\ riskState.weeklyPnlUsdt = 0 /\ rcResult.rr >= 20
  /\ ~rcResult.out.allowed

\* C3: checkRiskAllowance tests kill switch, weekly cap (weekly PnL <= -5% of
\* peak), daily cap (daily PnL <= -2% of current equity), max trades per day (1)
\* and minimum R:R (2.0) in this order; its reason is that of the first gate
\* that fails, and it allows the trade iff none fails.
C3_FirstFailing ==
  IF (riskState.peakEquity - riskState.currentEquity) * 100 >= 15 * riskState.peakEquity
    THEN "KILL_SWITCH"
  ELSE IF riskState.weeklyPnlUsdt * 100 <= -5 * riskState.peakEquity THEN "WEEKLY"
  ELSE IF riskState.dailyPnlUsdt * 100 <= -2 * riskState.currentEquity THEN "DAILY"
  ELSE IF riskState.tradesToday >= 1 THEN "MAX_TRADES"
  ELSE IF rcResult.rr < 20 THEN "RR"
  ELSE "OK"

C3_GateOrder ==
  rcResult.called =>
    /\ rcResult.out.reason = C3_FirstFailing
    /\ rcResult.out.allowed <=> (C3_FirstFailing = "OK")

\* weekly, daily, trade-count and R:R gates all fail; the weekly one is reported
C3_Witness ==
  /\ rcResult.called
  /\ rcResult.out.reason = "WEEKLY"
  /\ riskState.dailyPnlUsdt * 100 <= -2 * riskState.currentEquity
  /\ riskState.tradesToday >= 1
  /\ rcResult.rr < 20

\* C4: every closure of a filled trade (stop-loss, TP2, time exit, kill switch,
\* structural exit, forced close at shutdown) is recorded exactly once via
\* recordTradeResult and passed to the trade log.
C4_EveryClosureRecorded ==
  \A i \in 1..Len(tradeHistory) :
    /\ Count(recorded, tradeHistory[i].id) = 1
    /\ Count(tradeLog, tradeHistory[i].id) = 1

\* C5: for a non-terminal trade evaluateExit returns the first matching exit in
\* the order kill switch, stop-loss, TP1 (only before TP1 was hit), TP2 (only
\* after it), time exit, structural exit.
C5_FirstMatch ==
  LET t == xIn.trade
      long == t.direction = "LONG"
      sl == IF long THEN xIn.price <= t.stopLoss ELSE xIn.price >= t.stopLoss
      tp1 == IF long THEN xIn.price >= t.tp1Level ELSE xIn.price <= t.tp1Level
      tp2 == IF long THEN xIn.price >= t.tp2Level ELSE xIn.price <= t.tp2Level
      late == xIn.time[1] * 60 + xIn.time[2] >= 15 * 60 + 30
      against == /\ xIn.structure.trend # "UNDEFINED"
                 /\ xIn.structure.lastEvent \in
                      (IF long THEN {"SMS_BEARISH", "CHOCH_BEARISH"}
                       ELSE {"SMS_BULLISH", "CHOCH_BULLISH"})
  IN IF xIn.kill THEN "KILL_SWITCH"
     ELSE IF sl THEN "STOP_LOSS"
     ELSE IF ~t.tp1Hit /\ tp1 THEN "TP1"
     ELSE IF t.tp1Hit /\ tp2 THEN "TP2"
     ELSE IF late THEN "TIME_EXIT"
     ELSE IF against THEN "STRUCTURAL"
     ELSE "NONE"

C5_ExitPriority ==
  (xOut.done /\ xIn.trade.status \in {"PENDING", "OPEN", "TP1_HIT"}) =>
    /\ xOut.d.reason = C5_FirstMatch
    /\ xOut.d.shouldExit <=> (C5_FirstMatch # "NONE")

\* TP1, the time exit and the structural exit all match; TP1 is returned
C5_Witness ==
  /\ xOut.done
  /\ xIn.trade.status = "OPEN" /\ xIn.trade.direction = "LONG"
  /\ ~xIn.kill
  /\ xIn.price >= xIn.trade.tp1Level
  /\ xIn.time = <<16, 5>>
  /\ xIn.structure = [trend |-> "BEARISH", lastEvent |-> "SMS_BEARISH"]
  /\ xOut.d.reason = "TP1"

\* C6: the stop-loss / TP1 / TP2 / time exit that updatePaperPositions applies to
\* a filled trade, and its exit price, is the one evaluateExit selects for that
\* trade with the kill switch off.
C6_Applied(e) ==
  IF e.kind = "STOPPED" THEN <<"STOP_LOSS", e.exitPrice>>
  ELSE IF e.kind = "TP2_HIT" THEN <<"TP2", e.exitPrice>>
  ELSE IF e.kind = "TIME_EXIT" THEN <<"TIME_EXIT", e.exitPrice>>
  ELSE IF e.kind = "TP1" THEN <<"TP1", e.pre.trade.tp1Level>>
  ELSE <<"NONE", 0>>

C6_Selected(e) ==
  LET d == evaluateExit(e.pre.trade, e.price, e.time,
                        [trend |-> "UNDEFINED", lastEvent |-> "NONE"], FALSE)
  IN <<d.reason, d.exitPrice>>

C6_PaperMatchesExitStrategy ==
  \A i \in 1..Len(exitTrace) : C6_Applied(exitTrace[i]) = C6_Selected(exitTrace[i])

\* C7: a trade's status moves only along PENDING -> OPEN -> (TP1_HIT) -> terminal;
\* a terminal trade is not in the open-position list, is in the history exactly
\* once, and no later position check changes it or closes it again.
C7_StateOk ==
  /\ \A i \in 1..Len(openPositions) : openPositions[i].trade.status \in LiveStatuses
  /\ \A i \in 1..Len(tradeHistory) :
       /\ tradeHistory[i].status \in TerminalStatuses
       /\ tradeHistory[i].id \notin Ids(openPositions)
       /\ \A j \in 1..Len(tradeHistory) : tradeHistory[j].id = tradeHistory[i].id => j = i

C7_StepOk ==
  /\ Len(tradeHistory') >= Len(tradeHistory)
  /\ SubSeq(tradeHistory', 1, Len(tradeHistory)) = tradeHistory
  /\ \A i \in 1..Len(openPositions), j \in 1..Len(openPositions') :
       openPositions[i].trade.id = openPositions'[j].trade.id =>
         <<openPositions[i].trade.status, openPositions'[j].trade.status>> \in
           {<<"PENDING", "PENDING">>, <<"PENDING", "OPEN">>, <<"OPEN", "OPEN">>,
            <<"OPEN", "TP1_HIT">>, <<"TP1_HIT", "TP1_HIT">>}
  /\ \A k \in NewlyClosed :
       \E i \in 1..Len(openPositions) :
         /\ openPositions[i].trade.id = tradeHistory'[k].id
         /\ openPositions[i].trade.status \in {"OPEN", "TP1_HIT"}

C7_Lifecycle == [](C7_StateOk) /\ [][C7_StepOk]_vars

\* a LONG trade was stopped out, and a later position check has run at a price
\* far above its stop
C7_Witness ==
  /\ Len(tradeHistory) = 1 /\ openPositions = <<>>
  /\ tradeHistory[1].status = "STOPPED" /\ tradeHistory[1].direction = "LONG"
  /\ lastPrice > tradeHistory[1].tp2Level - 1
  /\ pc = "analysis"

\* C8: for a trade whose status is terminal evaluateExit returns no exit,
\* whatever the price, time, structure and kill switch.
C8_TerminalNoExit ==
  (xOut.done /\ xIn.trade.status \in TerminalStatuses) => ~xOut.d.shouldExit

\* C9: at TP1 exactly 50% of the original size is closed and the active stop
\* becomes entry + 0.05% (LONG) or entry - 0.05% (SHORT); this happens at most
\* once per trade.
C9_OneBooking(t) == calcPnL(t.direction, t.entryPrice, t.tp1Level, t.sizeUsdt \div 2, t.leverage)

C9_Tp1Once ==
  /\ \A i \in 1..Len(openPositions) :
       LET pos == openPositions[i]
           t == pos.trade
       IN /\ (t.status = "TP1_HIT") <=> pos.tp1Executed
          /\ pos.tp1Executed =>
               /\ pos.remainingSizePercent = 50
               /\ pos.partialPnlUsdt = C9_OneBooking(t)
               /\ t.entryPrice % 2000 = 0
               /\ pos.currentStopLoss - t.entryPrice =
                    (IF t.direction = "LONG" THEN 1 ELSE -1) * (t.entryPrice \div 2000)
          /\ ~pos.tp1Executed =>
               /\ pos.remainingSizePercent = 100
               /\ pos.partialPnlUsdt = 0
               /\ pos.currentStopLoss = t.stopLoss
  /\ \A i \in 1..Len(tradeHistory) :
       LET h == tradeHistory[i]
       IN h.pnlUsdt =
            IF h.tp1Hit
              THEN C9_OneBooking(h)
                   + calcPnL(h.direction, h.entryPrice, h.exitPrice, h.sizeUsdt \div 2, h.leverage)
              ELSE calcPnL(h.direction, h.entryPrice, h.exitPrice, h.sizeUsdt, h.leverage)

\* after TP1 a later cycle saw the price beyond TP1 again and closed the rest
C9_Witness ==
  \E i \in 1..Len(exitTrace) :
    /\ exitTrace[i].pre.tp1Executed
    /\ Tp1Reached(exitTrace[i].pre.trade, exitTrace[i].price)
    /\ exitTrace[i].kind = "TP2_HIT"

\* C10: no trade reaches TP2_HIT unless its TP1 partial close executed in an
\* earlier position check, even when the price jumps beyond TP2 in one cycle.
C10_StepOk ==
  \A k \in NewlyClosed :
    tradeHistory'[k].status = "TP2_HIT" =>
      \E i \in 1..Len(openPositions) :
        /\ openPositions[i].trade.id = tradeHistory'[k].id
        /\ openPositions[i].tp1Executed

C10_Tp2AfterTp1 == [][C10_StepOk]_vars

\* the price jumped beyond TP2 before TP1 was taken: only TP1 fired
C10_Witness ==
  \E i \in 1..Len(exitTrace) :
    /\ ~exitTrace[i].pre.tp1Executed
    /\ Tp2Reached(exitTrace[i].pre.trade, exitTrace[i].price)
    /\ exitTrace[i].kind = "TP1"

\* C11: a PENDING trade becomes OPEN only in a position check whose current
\* price lies inside the entry gap, between its bottom and its top; a price
\* outside the gap never fills it.
C11_StepOk ==
  \A i \in 1..Len(openPositions), j \in 1..Len(openPositions') :
    (/\ openPositions[i].trade.id = openPositions'[j].trade.id
     /\ ~openPositions[i].entryFilled
     /\ openPositions'[j].entryFilled)
      => (/\ openPositions[i].fvgBottom <= lastPrice
          /\ lastPrice <= openPositions[i].fvgTop)

C11_FillsInsideGap == [][C11_StepOk]_vars

\* C12: if the kill switch is active (drawdown from peak at least 15%) when
\* checkPositions starts, no filled position is open when that check returns.
C12_DrawdownAtLimit ==
  (riskState.peakEquity - riskState.currentEquity) * 100 >= 15 * riskState.peakEquity

C12_StepOk ==
  /\ (pc = "check" /\ pc' = "step4") => (cpArgs'.killSwitch <=> C12_DrawdownAtLimit)
  /\ (/\ pc' = "analysis"
      /\ \/ pc = "check" /\ C12_DrawdownAtLimit
         \/ pc = "step4" /\ cpArgs.killSwitch)
       => \A j \in 1..Len(openPositions') : ~openPositions'[j].entryFilled

C12_KillClosesAll == [][C12_StepOk]_vars

\* a check that started with the kill switch active has returned, and the
\* position it found filled and untouched by stop, target or time is closed
C12_Witness ==
  /\ pc = "analysis"
  /\ C12_DrawdownAtLimit
  /\ openPositions = <<>>
  /\ Len(tradeHistory) = 1
  /\ tradeHistory[1].status = "KILLED"
  /\ tradeHistory[1].exitPrice = lastPrice

\* C13: in the scheduled 5-minute position check, a filled open trade to which
\* no kill-switch, stop-loss, take-profit or time exit applies is closed with
\* status STRUCTURAL whenever the 15m timeframe shows an SMS or CHOCH event
\* against the trade's direction.
C13_Against(direction) ==
  /\ market15m.trend # "UNDEFINED"
  /\ market15m.event \in (IF direction = "LONG" THEN {"SMS_BEARISH", "CHOCH_BEARISH"}
                          ELSE {"SMS_BULLISH", "CHOCH_BULLISH"})

C13_StepOk ==
  (pc = "check" /\ pc' = "analysis") =>
    \A k \in 1..Len(exitTrace') :
      (/\ exitTrace'[k].kind = "NONE"
       /\ ~C12_DrawdownAtLimit
       /\ C13_Against(exitTrace'[k].pre.trade.direction))
        => \E h \in 1..Len(tradeHistory') :
             /\ tradeHistory'[h].id = exitTrace'[k].pre.trade.id
             /\ tradeHistory'[h].status = "STRUCTURAL"

C13_StructuralExit == [][C13_StepOk]_vars

\* C14: on graceful shutdown (SIGINT or SIGTERM) every open simulated position
\* is closed before the process terminates: no position is open when the
\* process exits.
C14_NoneOpenAtExit == (shutdown = "exited") => (openPositions = <<>>)

\* C15: at most one cycle of a trigger family is in flight at any time: a tick
\* that fires while the previous cycle of the family is still running is
\* skipped or queued, so two cycles never interleave on the shared caches.
C15_OneCycleInFlight == Len(cycles) <= 1

\* C16: after debounceSMS has passed an event through for a timeframe, it
\* returns NONE on every following cycle in which detectSMS reports the same
\* event for that timeframe with an unchanged swing count: the signal detector
\* sees that event in exactly one cycle.  Stated for the calls in which the
\* event last let through has the direction of the reported one, so that no
\* direction flip stands between the two reports.
C16_Bullish(e) == e \in {"SMS_BULLISH", "CHOCH_BULLISH", "BMS_BULLISH"}

C16_SeenOnce ==
  (/\ dbCall.called /\ dbCall.raw # "NONE" /\ dbCall.passedBefore
   /\ dbCall.prev.set /\ C16_Bullish(dbCall.prev.event) = C16_Bullish(dbCall.raw))
    => dbCall.out = "NONE"

\* C17: a suppressed event is let through again as soon as a new swing has
\* formed on that timeframe since the event was recorded, and an event of the
\* opposite direction is always let through.
C17_Bullish(e) == e \in {"SMS_BULLISH", "CHOCH_BULLISH", "BMS_BULLISH"}

C17_Unsuppressed ==
  (/\ dbCall.called /\ dbCall.raw # "NONE" /\ dbCall.prev.set
   /\ \/ dbCall.formed > dbCall.prev.formed
      \/ C17_Bullish(dbCall.raw) # C17_Bullish(dbCall.prev.event))
    => dbCall.out = dbCall.raw

\* C18: detectSignal returns a signal only if the bias is BULLISH or BEARISH, a
\* killzone is active, a sweep scoring at least 5 exists, the last 5m or 15m event
\* is an SMS, an OPEN or PARTIALLY_FILLED gap of HIGH or MEDIUM quality of the bias
\* direction exists, the price is in discount (LONG) or premium (SHORT), no ACTIVE
\* liquidity level of the opposing side scoring at least 5 lies within 0.5% of the
\* entry price, R:R reaches the configured minimum and confidence is at least 50.
\* The opposing side of a LONG is read as the sell-side levels below the entry, of
\* a SHORT as the buy-side levels above it.
C18_Opposing(direction, l, entryPrice) ==
  IF direction = "LONG"
    THEN l.type \in {"SSL", "EQL", "PDL", "PWL", "SESSION_LOW"} /\ l.level < entryPrice
    ELSE l.type \in {"BSL", "EQH", "PDH", "PWH", "SESSION_HIGH"} /\ l.level > entryPrice

C18_InZone(direction) ==
  \E h \in sdIn.swings5m \cup sdIn.swings15m : \E l \in sdIn.swings5m \cup sdIn.swings15m :
    /\ h.type = "SWING_HIGH" /\ l.type = "SWING_LOW"
    /\ IF direction = "LONG" THEN 2 * sdIn.currentPrice < h.level + l.level
                             ELSE 2 * sdIn.currentPrice >= h.level + l.level

C18_GatesPassed ==
  (sdOut.done /\ sdOut.signal # NoSignal) =>
    LET sig == sdOut.signal
    IN /\ sdIn.bias.bias \in {"BULLISH", "BEARISH"}
       /\ sdIn.killzone
       /\ \E s \in sdIn.recentSweeps : s.score >= 5
       /\ \/ sdIn.structureState5m.lastEvent \in {"SMS_BULLISH", "SMS_BEARISH"}
          \/ sdIn.structureState15m.lastEvent \in {"SMS_BULLISH", "SMS_BEARISH"}
       /\ \E f \in sdIn.fvgs :
            /\ f.state \in {"OPEN", "PARTIALLY_FILLED"}
            /\ f.quality \in {"HIGH", "MEDIUM"}
            /\ f.type = sdIn.bias.bias
       /\ C18_InZone(sig.direction)
       /\ ~\E l \in sdIn.liquidityLevels :
            /\ l.state = "ACTIVE" /\ l.score >= 5
            /\ C18_Opposing(sig.direction, l, sig.entryFVG.ce)
            /\ Abs(l.level - sig.entryFVG.ce) * 200 < sig.entryFVG.ce
       /\ sig.rrRatio.risk > 0 /\ sig.rrRatio.reward >= minRR * sig.rrRatio.risk
       /\ sig.confidence >= 50

\* C19: when checkRiskAllowance allows a trade, the risk percent is 1% after no
\* consecutive loss, 0.5% after exactly one and 0.25% after two or more, and the
\* position size is min((balance * riskPercent / stopDistancePercent) * leverage,
\* balance * leverage). Percentages are in basis points; every stop of RiskStops
\* is at a distance that divides the entry price.
C19_RiskPercent ==
  CASE riskState.consecutiveLosses = 0 -> 100
    [] riskState.consecutiveLosses = 1 -> 50
    [] OTHER -> 25

C19_Size ==
  LET riskAmount == (rcResult.balance * C19_RiskPercent) \div 10000
      perUnit == rcResult.entryPrice \div Abs(rcResult.entryPrice - rcResult.stopLoss)
  IN Min(riskAmount * perUnit * defaultLeverage, rcResult.balance * defaultLeverage)

C19_SizedByStreak ==
  (rcResult.called /\ rcResult.out.allowed) =>
    /\ rcResult.out.riskPercent = C19_RiskPercent
    /\ rcResult.out.positionSizeUsdt = C19_Size

\* allowed after exactly one loss, the stop 1% away: 0.5% of 10,000 at 3x is 15,000
C19_Witness ==
  /\ rcResult.called /\ rcResult.out.allowed
  /\ riskState.consecutiveLosses = 1
  /\ rcResult.stopLoss = 3960000
  /\ rcResult.out.riskPercent = postLossRisk
  /\ rcResult.out.positionSizeUsdt = 15000

\* C20: under trade closures (recordTradeResult), equity refreshes (updateEquity)
\* and daily or weekly resets, peakEquity never decreases, and after each of these
\* operations it is not below currentEquity.
C20_StepOk ==
  /\ riskState'.peakEquity >= riskState.peakEquity
  /\ riskState'.peakEquity >= riskState'.currentEquity

C20_PeakOnlyRises == [][C20_StepOk]_vars

\* a closure has lowered the equity below a peak that an earlier refresh had raised
C20_Witness ==
  /\ riskOps >= 2
  /\ riskState.peakEquity = 12000
  /\ riskState.currentEquity < riskState.peakEquity
  /\ riskState.tradesToday >= 1

\* C21: a gap in state CE_TOUCHED becomes FILLED when a candle closes fully
\* through the gap's far boundary (below the bottom of a bullish gap, above the
\* top of a bearish one).
C21_ClosesThrough(f, c) ==
  IF f.type = "BULLISH" THEN c.close < f.bottom ELSE c.close > f.top

C21_FilledAfterFarClose ==
  fvgCall.called =>
    \A i \in 1..Len(fvgCall.before) :
      (/\ fvgCall.before[i].state = "CE_TOUCHED"
       /\ \E k \in 1..Len(fvgCall.candles) :
            C21_ClosesThrough(fvgCall.before[i], fvgCall.candles[k]))
        => fvgCall.after[i].state = "FILLED"

\* C22: updateFVGStates never moves a gap backwards: a state only advances along
\* OPEN, PARTIALLY_FILLED, CE_TOUCHED, FILLED or jumps to VIOLATED, and a FILLED
\* or VIOLATED gap is returned unchanged by every later update.
C22_Rank(state) ==
  CASE state = "OPEN" -> 0
    [] state = "PARTIALLY_FILLED" -> 1
    [] state = "CE_TOUCHED" -> 2
    [] state = "FILLED" -> 3
    [] state = "VIOLATED" -> 4

C22_NeverBackwards ==
  fvgCall.called =>
    /\ Len(fvgCall.after) = Len(fvgCall.before)
    /\ \A i \in 1..Len(fvgCall.before) :
         /\ C22_Rank(fvgCall.after[i].state) >= C22_Rank(fvgCall.before[i].state)
         /\ fvgCall.before[i].state \in {"FILLED", "VIOLATED"}
              => fvgCall.after[i] = fvgCall.before[i]
         /\ [fvgCall.after[i] EXCEPT !.state = "OPEN"]
              = [fvgCall.before[i] EXCEPT !.state = "OPEN"]

\* a gap the wick had already entered is updated again over candles that would
\* leave a fresh gap PARTIALLY_FILLED, and reaches CE_TOUCHED
C22_Witness ==
  /\ fvgCall.called
  /\ \E i \in 1..Len(fvgCall.before) :
       /\ fvgCall.before[i].state = "PARTIALLY_FILLED"
       /\ fvgCall.after[i].state = "CE_TOUCHED"
       /\ fvgCall.candles[Len(fvgCall.candles)].low >= fvgCall.before[i].ce

\* C23: a gap that reached VIOLATED or FILLED and was removed from the active
\* pool never reappears in the pool as OPEN in a later analysis cycle, although
\* its forming candles are still in the candle cache.
C23_NoReturn ==
  \A i \in 1..Len(activeFVGs) :
    activeFVGs[i].id \in retiredFVGs => activeFVGs[i].state # "OPEN"

\* C24: SWEPT and EXPIRED are terminal for a liquidity level: once the level of a
\* given type and price has been marked SWEPT or EXPIRED, no later state update
\* or analysis cycle presents that level as ACTIVE again.
C24_Terminal ==
  \A i \in 1..Len(liquidityLevels) :
    <<liquidityLevels[i].type, liquidityLevels[i].level>> \in liqRetired
      => liquidityLevels[i].state # "ACTIVE"

\* C25: after every write each cache respects its cap: at most 500 candles and at
\* most 200 swings for the timeframe, and at most 10 entries in the recent-sweeps
\* cache.
C25_Capped ==
  /\ Len(candleCache5m) <= CANDLE_CACHE_SIZE
  /\ Len(swingCache5m) <= SWING_CACHE_SIZE
  /\ Len(recentSweeps) <= SWEEP_CACHE_SIZE

\* C26: over any sequence of timeframe updates each swing, identified by
\* (timestamp, type), is reported as new at most once.
C26_ReportedOnce ==
  \A i, j \in 1..Len(swingReports) : swingReports[i] = swingReports[j] => i = j

\* C27: detectSMS never returns SMS_BULLISH or SMS_BEARISH for a CHOCH whose
\* displacement score is below the minimum of 6: an SMS comes only from the CHOCH
\* of its direction with a score of 6 or more, and a detected CHOCH scoring less
\* is returned as the CHOCH itself.
C27_Event ==
  detectBMS(fnIn.candles[Len(fnIn.candles)], analyzeStructureState(fnIn.swings))

C27_Score ==
  scoreDisplacement(fnIn.candles, Max2(0, Len(fnIn.candles) - 11),
                    Len(fnIn.candles) - 1).score

C27_ChochStaysChoch ==
  fnOut.done =>
    /\ fnOut.event = "SMS_BULLISH" => C27_Event = "CHOCH_BULLISH" /\ C27_Score >= 6
    /\ fnOut.event = "SMS_BEARISH" => C27_Event = "CHOCH_BEARISH" /\ C27_Score >= 6
    /\ (Len(fnIn.candles) >= 5 /\ C27_Event \in {"CHOCH_BULLISH", "CHOCH_BEARISH"}
          /\ C27_Score < 6)
         => fnOut.event = C27_Event

C27_Witness ==
  /\ fnOut.done
  /\ Len(fnIn.candles) >= 5
  /\ C27_Event = "CHOCH_BEARISH"
  /\ C27_Score = 5
  /\ fnOut.event = "CHOCH_BEARISH"

\* C28: every sweep returned by scanForSweeps comes from a wick that went past its
\* level by at most 1% of the level and has a score from 5 to 10.
C28_SweepsQualify ==
  fnOut.done =>
    \A k \in 1..Len(fnOut.sweeps) :
      LET s == fnOut.sweeps[k]
      IN /\ Abs(s.extreme - s.liquidityLevel.level) * 100 <= s.liquidityLevel.level
         /\ s.extreme # s.liquidityLevel.level
         /\ s.score >= 5
         /\ s.score <= 10

C28_Witness ==
  /\ fnOut.done
  /\ \E k \in 1..Len(fnOut.sweeps) :
       /\ fnOut.sweeps[k].score = 5
       /\ Abs(fnOut.sweeps[k].extreme - fnOut.sweeps[k].liquidityLevel.level) * 200
            >= fnOut.sweeps[k].liquidityLevel.level
  /\ \E c \in 1..Len(fnIn.candles) : fnIn.candles[c].high = 4050000

\* C29: the list returned by mapLiquidityLevels contains no two levels whose
\* prices are within 0.05% of each other, and every built level is answered by a
\* returned level within 0.05% of it whose score is at least as high.
C29_Within(a, b) == Abs(a - b) * 2000 <= a /\ Abs(a - b) * 2000 <= b

C29_Merged ==
  fnOut.done =>
    /\ \A i, j \in 1..Len(fnOut.levels) :
         i # j => ~C29_Within(fnOut.levels[i].level, fnOut.levels[j].level)
    /\ \A k \in 1..Len(fnOut.built) : \E i \in 1..Len(fnOut.levels) :
         /\ C29_Within(fnOut.levels[i].level, fnOut.built[k].level)
         /\ fnOut.levels[i].score >= fnOut.built[k].score

\* C30: a failure inside one cycle never halts the process: a fetch makes at most
\* 3 attempts with doubling delays, a failed timeframe update is logged, nothing
\* more of that tick runs, and the next tick starts as usual.
C30_Caught ==
  /\ tkAlive
  /\ tkAttempt <= 3
  /\ \A k \in 1..Len(tkSleeps) : tkSleeps[k] = BackoffDelay(k)
  /\ tkFailed => /\ tkAttempt = 3
                 /\ \E k \in 1..Len(tkLog) :
                      tkLog[k] = [tick |-> tkTicks, line |-> "Update failed"]

C30_TickSkipped ==
  C30_Caught /\ (tkFailed => tkSteps = {})

\* C31: a failure to write a closed trade to the trade log or to send its alert
\* never loses trade state: whichever sinks are down, every closure handled in a
\* step has left the open positions, is in the trade history and has been
\* recorded in the risk state, and the position check goes on to its next step.
C31_Ids(positions) == {positions[i].trade.id : i \in 1..Len(positions)}

C31_NoStateLost ==
  [][delivered' # delivered =>
       /\ \A k \in (Len(delivered) + 1)..Len(delivered') :
            /\ delivered'[k].id \notin C31_Ids(openPositions')
            /\ \E i \in 1..Len(tradeHistory') : tradeHistory'[i].id = delivered'[k].id
            /\ \E i \in 1..Len(recorded') : recorded'[i] = delivered'[k].id
       /\ riskState'.tradesToday
            = riskState.tradesToday + Len(delivered') - Len(delivered)
       /\ pc' \in {"step4", "analysis"}]_vars

C31_Witness ==
  /\ pc = "step4"
  /\ \E k \in 1..Len(delivered) :
       /\ delivered[k].to = {}
       /\ \E i \in 1..Len(recorded) : recorded[i] = delivered[k].id
       /\ \E i \in 1..Len(tradeHistory) : tradeHistory[i].id = delivered[k].id

\* C32: while the manual kill switch is active no new signal is executed: no
\* trade is opened in a step that starts with the switch on.
C32_NoTradeWhileKilled ==
  [][manualKillSwitch => nextId' = nextId /\ Len(openPositions') <= Len(openPositions)]_vars

\* C33: whenever the bot is running and no position is open, the risk state's
\* currentEquity equals the starting balance plus the realized PnL of all closed
\* trades.
C33_Realized ==
  LET pnl(i) == tradeHistory[i].pnlUsdt IN SumOver(pnl, 1, Len(tradeHistory))

C33_EquityIsRealized ==
  (shutdown = "running" /\ Len(openPositions) = 0)
    => riskState.currentEquity = PAPER_BALANCE + C33_Realized

\* C34: between two consecutive daily resets at most one trade is opened, for
\* every interleaving of signals, fills, closures and resets
C34_OnePerDay == openedToday <= maxTradesPerDay

\* C35: a trade stopped out at its original stop-loss before TP1 loses no more
\* than the risk amount it was sized with, riskPercent x account balance (the
\* balance is PAPER_BALANCE until a TP1 partial is booked, and no risk percent
\* is above maxRiskPerTrade)
C35_LossWithinRisk ==
  \A i \in 1..Len(tradeHistory) :
    LET t == tradeHistory[i]
    IN (t.status = "STOPPED" /\ ~t.tp1Hit /\ t.exitPrice = t.stopLoss
        /\ accountBalance = PAPER_BALANCE)
         => -t.pnlUsdt <= BasisPoints(PAPER_BALANCE, maxRiskPerTrade)

\* C36: every signal detectSignal returns has its levels on the right sides of
\* the entry price, the entry gap's midpoint: stopLoss < entry < tp1 < tp2 for a
\* LONG, stopLoss > entry > tp1 > tp2 for a SHORT
C36_LevelsOrdered ==
  (sdOut.done /\ sdOut.signal # NoSignal) =>
    LET s == sdOut.signal
        entry == s.entryFVG.ce
    IN IF s.direction = "LONG"
         THEN s.stopLoss < entry /\ entry < s.tp1 /\ s.tp1 < s.tp2
         ELSE s.stopLoss > entry /\ entry > s.tp1 /\ s.tp1 > s.tp2

\* C39: detectSignal returns a LONG only if an SMS event that passed the
\* structure gate (5m or 15m) is SMS_BULLISH, a SHORT only if one is SMS_BEARISH
C39_Events == {sdIn.structureState5m.lastEvent, sdIn.structureState15m.lastEvent}

C39_DirectionFollowsSMS ==
  (sdOut.done /\ sdOut.signal # NoSignal) =>
    IF sdOut.signal.direction = "LONG" THEN "SMS_BULLISH" \in C39_Events
                                       ELSE "SMS_BEARISH" \in C39_Events

\* C37: when one of the 10 most recent 5m candles, formed after an ACTIVE level
\* was created, wicks through the level by at most 1% and closes back on the
\* correct side with a sweep score of at least 5, the analysis cycle adds a
\* sweep of that level to the recent sweeps
C37_Qualifying(level, c) ==
  LET extreme == IF level.type \in HIGH_TYPES THEN c.high ELSE c.low
  IN /\ c.timestamp > level.timestamp
     /\ IF level.type \in HIGH_TYPES THEN c.high > level.level ELSE c.low < level.level
     /\ Abs(extreme - level.level) * 100 <= level.level
     /\ ClosedBack(level, c)
     /\ computeSweepScore(level, extreme, 0, c) >= minScoreForTrigger

C37_SweepAdded ==
  fnOut.done =>
    \A k \in 1..Len(fnIn.candles) :
      (k > Len(fnIn.candles) - 10 /\ C37_Qualifying(fnIn.levels[1], fnIn.candles[k]))
        => \E j \in 1..Len(fnOut.recentSweeps) :
             fnOut.recentSweeps[j].liquidityLevel.level = fnIn.levels[1].level

\* the scan does report sweeps: of candles older than the last ten
C37_SomeSweep == fnOut.done /\ Len(fnOut.recentSweeps) > 0

\* C38: updateFVGStates changes a gap's state only on the evidence of candles
\* formed after the gap's three forming candles (the gap carries the time of
\* the middle one): the state it returns is the state the later candles alone
\* lead to
C38_Later(fvg, candles) ==
  LET isLater(c) == c.timestamp > fvg.timestamp + 1 IN SelectSeq(candles, isLater)

C38_OnlyLaterCandles ==
  fvgCall.called =>
    \A i \in 1..Len(fvgCall.before) :
      fvgCall.after[i].state =
        FvgLoop(fvgCall.before[i], fvgCall.before[i].state,
                C38_Later(fvgCall.before[i], fvgCall.candles), 1)

\* C40: after every scheduled 4h or daily timeframe update the swing cache of
\* the timeframe contains every swing that is confirmed in its candle cache
\* (candleCache5m and swingCache5m hold the caches of the timeframe updated)
C40_SwingsCurrent ==
  LET confirmed == detectSwings(marketKind, candleCache5m)
  IN \A i \in 1..Len(confirmed) :
       \E j \in 1..Len(swingCache5m) : swingCache5m[j] = confirmed[i]

====
